---------------------------- MODULE Spec2Model ----------------------------
(***************************************************************************)
(* The checkpointed two-phase coverage pipeline of waheed-sep/vf_ec.        *)
(*                                                                         *)
(* Three scripts implement the same pipeline with different helpers:       *)
(*   "vft"  : src/vuln_fix_testCompile.py   (main / run_vuln_phase /       *)
(*            run_fix_phase)                                               *)
(*   "init" : src/docker/vfec_init.py       (run_phase_1 with the          *)
(*            CSVManager of src/docker/vfec_output.py)                     *)
(*   "gpac" : src/docker/gpac_docker/gpac_pipeline.py                      *)
(*            (run_phase_1_coverage; the tcpdump pipeline is the same      *)
(*            code)                                                        *)
(* One invocation of a script is a process; the checkpoint file, the CSV   *)
(* file and the git working tree are on disk and survive a kill.           *)
(***************************************************************************)
EXTENDS Naturals, Sequences, FiniteSets, TLC

\* ------------------------------------------------------------------ bounds
\* Invocations of the script on the same disk (the first run, then restarts).
MaxRuns == 2
\* Failing shell-outs / failing JSON writes over the whole behaviour.
MaxFaults == 1

\* ------------------------------------------------------------- the inputs
VULN == "vuln"
FIX == "fix"
BASE == "base"
NONE == "none"
REPO_NAME == "X"
Commits == {VULN, FIX}
Files == {"a.c", "b.c"}
Tests == {"t1", "t2", "t3"}
Progs == {"vft", "init", "gpac"}
\* The per-project docker pipelines that measure energy right after coverage.
PipeProgs == {"libraw", "openjpeg", "tensorflow"}

\* The test enumerator is a function of the checked-out tree: t2 exists only
\* in the vuln commit's suite, t3 only in the fix commit's suite.
get_tests(head) ==
    IF head = VULN THEN <<"t1", "t2">>
    ELSE IF head = FIX THEN <<"t1", "t3">>
    ELSE <<>>

SuitePairs == {<<VULN, "t1">>, <<VULN, "t2">>, <<FIX, "t1">>, <<FIX, "t3">>}

\* The changed-file sets tried (a.c and b.c are interchangeable).
DiffChoices == {{}, {"a.c"}, {"a.c", "b.c"}}
\* A test of a commit that has not been run yet: its coverage is not known.
Unknown == {"?"}
\* What a test may cover: t1, in both suites, any set of files; t2 and t3
\* nothing or a.c.
CovChoices(t) == IF t = "t1" THEN SUBSET Files ELSE {{}, {"a.c"}}

\* --------------------------------------------------------------- helpers
\* A file on disk: absent, or present with its content.
NoFile == [exists |-> FALSE, data |-> <<>>]
File(content) == [exists |-> TRUE, data |-> content]
EmptyMap == [t \in {} |-> {}]
Put(r, t, v) == [x \in (DOMAIN r) \cup {t} |-> IF x = t THEN v ELSE r[x]]
Range(s) == {s[k] : k \in 1..Len(s)}

\* The energy cache: (commit, test) -> stored value. The file that holds it
\* is absent, whole (a complete JSON document), or cut short.
EmptyCache == [k \in {} |-> 0]
NoEnergyFile == [exists |-> FALSE, whole |-> FALSE, data |-> EmptyCache]
EnergyFile(c) == [exists |-> TRUE, whole |-> TRUE, data |-> c]
TruncatedEnergyFile == [exists |-> TRUE, whole |-> FALSE, data |-> EmptyCache]

\* A Python dict with the keys the pipelines use; "" / "absent" / FALSE mark
\* a key that is not in the dict.
EmptyDoc == [status |-> "", vuln_done |-> "absent", has_results |-> FALSE,
             results |-> EmptyMap]
StatusDoc(s, r) == [status |-> s, vuln_done |-> "absent", has_results |-> TRUE,
                    results |-> r]
VulnDoneDoc(b, r) == [status |-> "", vuln_done |-> b, has_results |-> TRUE,
                      results |-> r]
\* dict.get("results", {})
GetResults(d) == IF d.has_results THEN d.results ELSE EmptyMap

\* The order in which a set of names is iterated (fixed for one process).
Order == <<"a.c", "b.c", "t1", "t2", "t3">>
Pos(x) == CHOOSE n \in 1..Len(Order) : Order[n] = x
RECURSIVE SetToSeq(_)
SetToSeq(S) ==
    IF S = {} THEN <<>>
    ELSE LET x == CHOOSE y \in S : \A z \in S : Pos(y) <= Pos(z)
         IN <<x>> \o SetToSeq(S \ {x})

\* json.dump(data, f, indent=4): the document as the sequence of tokens that
\* reach the file, an opening brace first and the closing brace last.
RECURSIVE EntryTokens(_, _)
EntryTokens(r, ts) ==
    IF ts = <<>> THEN <<>>
    ELSE <<[k |-> "entry", t |-> Head(ts), fs |-> r[Head(ts)]]>>
         \o EntryTokens(r, Tail(ts))

Serialize(d) ==
    <<[k |-> "open"]>>
    \o (IF d.status # "" THEN <<[k |-> "status", s |-> d.status]>> ELSE <<>>)
    \o (IF d.vuln_done # "absent" THEN <<[k |-> "vuln_done", b |-> d.vuln_done]>>
        ELSE <<>>)
    \o (IF d.has_results
        THEN <<[k |-> "results_open"]>>
             \o EntryTokens(d.results, SetToSeq(DOMAIN d.results))
             \o <<[k |-> "close"]>>
        ELSE <<>>)
    \o <<[k |-> "close"]>>

\* json.load(f): a document parses only when every brace that was opened is
\* closed again and the text ends there.
RECURSIVE Depth(_)
Depth(s) ==
    IF s = <<>> THEN 0
    ELSE LET d == Depth(SubSeq(s, 1, Len(s) - 1))
             x == s[Len(s)]
         IN IF x.k \in {"open", "results_open"} THEN d + 1
            ELSE IF x.k = "close" THEN (IF d = 0 THEN 0 ELSE d - 1)
            ELSE d

WellFormed(s) ==
    /\ Len(s) >= 2
    /\ s[1].k = "open"
    /\ s[Len(s)].k = "close"
    /\ Depth(s) = 0
    /\ \A n \in 1..(Len(s) - 1) : Depth(SubSeq(s, 1, n)) > 0

RECURSIVE ParseTokens(_, _)
ParseTokens(s, d) ==
    IF s = <<>> THEN d
    ELSE LET x == Head(s)
             e == IF x.k = "status" THEN [d EXCEPT !.status = x.s]
                  ELSE IF x.k = "vuln_done" THEN [d EXCEPT !.vuln_done = x.b]
                  ELSE IF x.k = "results_open" THEN [d EXCEPT !.has_results = TRUE]
                  ELSE IF x.k = "entry"
                       THEN [d EXCEPT !.results = Put(d.results, x.t, x.fs)]
                  ELSE d
         IN ParseTokens(Tail(s), e)

\* ok = FALSE stands for the JSONDecodeError json.load raises.
Parse(s) ==
    IF WellFormed(s) THEN [ok |-> TRUE, doc |-> ParseTokens(s, EmptyDoc)]
    ELSE [ok |-> FALSE, doc |-> EmptyDoc]

\* Every strict prefix of a document: what a write that stops early leaves.
Prefixes(s) == {SubSeq(s, 1, n) : n \in 0..(Len(s) - 1)}

\* One CSV line: the fields in column order.
Header == <<"project", "vuln_commit", "v_testname", "fix_commit", "f_testname",
            "sourcefile">>
Row(v_entry, f_entry, target) == <<REPO_NAME, VULN, v_entry, FIX, f_entry, target>>

\* The scripts of the energy phase (vfec_init.py run_phase_2, profiler.py).
EnergyProgs == {"phase2", "profiler"}

\* The measure functions: profiler.measure_single_test, openssl_pipeline.measure_test,
\* vfec_output.measure_energy (called by vfec_init.run_phase_2) and
\* curl_vuln_profiler.calibrate_loops.
MeasureProgs == {"profiler_measure", "openssl_measure", "vfec_output_measure", "curl_calibrate"}

\* Durations are in microseconds.
Second == 1000 * 1000
Durations == {0, 500, Second \div 1000, Second \div 2, 7 * (Second \div 10), 2 * Second,
              5 * Second}

\* The events perf is asked for, and the substring tests the parsers make.
EVENT_PKG == "power/energy-pkg/"
EVENT_CORE == "power/energy-cores/"
Has(evt, sub) ==
    <<evt, sub>> \in {<<EVENT_PKG, "energy-pkg">>, <<EVENT_CORE, "energy-cores">>,
                      <<"cycles", "cycles">>, <<"instructions", "instructions">>}

\* float(): the strings that parse, with their value.
IsFloat(v) == v \in {"24", "36"}
Float(v) == IF v = "24" THEN 24 ELSE 36

\* One line of `perf stat -x,` output: the number of comma-separated fields,
\* the first field and the third.
PerfLine(n, v, e) == [parts |-> n, val |-> v, event |-> e]
PerfLines ==
    {PerfLine(3, v, e) : v \in {"24", "<not supported>", ""},
                         e \in {EVENT_PKG, EVENT_CORE, "cycles"}}
      \cup {PerfLine(3, "36", "instructions"), PerfLine(1, "", "")}
MaxLines == 2
PerfOutputs == UNION {[1..n -> PerfLines] : n \in 0..MaxLines}
PerfInputs ==
    [pre_ok : BOOLEAN, duration : Durations, returncode : {0, 1}, lines : PerfOutputs]
NoPerf == [pre_ok |-> TRUE, duration |-> 0, returncode |-> 0, lines |-> <<>>]

\* A value divided by the loop count, kept exact.
Ratio(n, d) == <<n, d>>
Zero == Ratio(0, 1)
\* What a measure function returns: None, or the metrics.
None == [ok |-> FALSE, energy_pkg |-> Zero, energy_core |-> Zero, cycles |-> Zero, ipc |-> Zero]
Metrics(pkg, core, cyc, ipc) ==
    [ok |-> TRUE, energy_pkg |-> pkg, energy_core |-> core, cycles |-> cyc, ipc |-> ipc]

\* The Phase-1 CSV files an energy run is started on.
P1Choices ==
    {NoFile,
     File(<<Header, Row("t1", "t1", "a.c")>>),
     File(<<Header, Row("t1", "t1", "a.c"), Row("", "t3", "a.c")>>),
     File(<<Header, Row("", "t3", "a.c"), Row("t1", "", "b.c")>>)}

\* A master Phase-1 CSV that also holds rows of other pairs of the project.
OtherPairRow == <<REPO_NAME, "other", "t1", FIX, "t1", "a.c">>
OtherFixRow == <<REPO_NAME, VULN, "t1", "otherfix", "", "a.c">>
P1MasterChoices ==
    {File(<<Header, OtherPairRow>>),
     File(<<Header, OtherPairRow, Row("t1", "t1", "a.c"), OtherFixRow, Row("", "t3", "a.c")>>)}

\* The coverage collectors: vuln_fix_testCompile.get_covered_files,
\* curl_fix_testcov.normalize_gcda_name and vfec_output.get_covered_files.
NameProgs == {"vft_cov", "curl_cov", "vfec_output_cov"}

\* A file name is the sequence of its pieces; the pieces are cut where the
\* collectors look: at the extension, at "_la-" and after curl's "curl-".
\* A directory is the sequence of its components.
GcdaPrefixes ==
    {<<>>, <<"MagickCore", "_la-">>, <<"curl-">>, <<"libcurl", "_la-">>,
     <<"libcurltool", "_la-">>}
GcdaStems == {<<"pcl">>, <<"tool_msgs">>, <<"url">>}
GcdaDirs == {<<>>, <<"coders">>, <<"coders", ".libs">>}
\* The artifact <dir>/<prefix><name>.gcda
GcdaFiles ==
    {[dir |-> d, prefix |-> p, name |-> n, file |-> p \o n \o <<".gcda">>] :
        d \in GcdaDirs, p \in GcdaPrefixes, n \in GcdaStems}
NoGcda == [dir |-> <<>>, prefix |-> <<>>, name |-> <<>>, file |-> <<>>]
NoName == [dir |-> <<>>, file |-> <<>>]

\* The discovery strategies of get_test_suite (ffmpeg, openssl with
\* recipes, openssl without, imagemagick, qemu), get_tcpdump_tests (TESTLIST,
\* .pcap scan) and get_gpac_tests.
\* vfec_init.py and gpac_pipeline.py working through the pairs of the input
\* CSV one after the other (main). Two of the vuln commits share their
\* first 8 characters; the suite of every commit is the one test "t1".
PairProgs == {"init_pairs", "gpac_pairs"}
VulnCommits == {"aaaaaaaa1", "aaaaaaaa2", "bbbbbbbb1"}
FixCommits == {"ffffffff1", "ffffffff2"}
\* commit[:8]
First8(commit) ==
    IF commit \in {"aaaaaaaa1", "aaaaaaaa2"} THEN "aaaaaaaa"
    ELSE IF commit = "bbbbbbbb1" THEN "bbbbbbbb" ELSE "ffffffff"
PairChoices == {[vuln |-> v, fix |-> x] : v \in VulnCommits, x \in FixCommits}
PairLists == {l \in [1..2 -> PairChoices] : l[1] # l[2]}
ChangedChoices == [FixCommits -> {{"a.c"}, {"a.c", "b.c"}}]
CoverChoices == [VulnCommits \cup FixCommits -> {{}, {"a.c"}, {"a.c", "b.c"}}]
NoCheckpoints == [p \in {First8(v) : v \in VulnCommits} |-> NoFile]

Header2 == <<"project", "vuln_commit", "v_testname", "v_energy_pkg", "fix_commit",
             "f_testname", "sourcefile", "f_energy_pkg">>
\* f"{v:.4f}": the value rounded to four decimals.
Fmt4(v) == ToString((v + 5) \div 10) \o "e-4"
\* cache.get(commit, {}).get(test, 0)
Lookup(cache, c, t) == IF <<c, t>> \in DOMAIN cache THEN cache[<<c, t>>] ELSE 0
\* The Phase-2 row vfec_init writes for a Phase-1 row.
P2Row(row, cache) ==
    <<row[1], row[2], row[3], Fmt4(Lookup(cache, row[2], row[3])),
      row[4], row[5], row[6], Fmt4(Lookup(cache, row[4], row[5]))>>

\* CSVManager(write_interval=50) and CSV_WRITE_INTERVAL of the pipelines.
write_interval == 50

\* vfec_output.CSVManager on its own: rows are added and flushed to the two
\* CSV files, which are absent or hold what an earlier run wrote.
ManagerProgs == {"csv_manager"}
ManagerRows == {Row("t1", "t1", "a.c"), Row("", "t2", "a.c")}
ManagerP1Files == {NoFile, File(<<Header, Row("t3", "t3", "b.c")>>)}
ManagerP2Files == {NoFile, File(<<Header2, P2Row(Row("t3", "t3", "b.c"), EmptyCache)>>)}
MaxAdds == 3

\* Two invocations of vuln_fix_testCompile.py for the same pair, started
\* together on the same directory.
ConcProgs == {"vft_twice"}
Invocations == {1, 2}
NoInvocation == [pc |-> "none", results |-> EmptyMap, idx |-> 1, saveDoc |-> EmptyDoc,
                 dumped |-> EmptyDoc]
FreshInvocation == [NoInvocation EXCEPT !.pc = "load"]

EnumProgs == {"ffmpeg", "openssl", "openssl_legacy", "imagemagick", "qemu",
              "tcpdump", "tcpdump_pcap", "gpac"}
\* Every order of the elements of a set.
Perms(S) == {f \in [1..Cardinality(S) -> S] : \A i, j \in DOMAIN f : f[i] = f[j] => i = j}
\* The directory of test files in a checked-out tree: the files in it (a.c
\* stands for a file that is not a test) and the order in which TESTLIST or
\* `make fate-list` names them, which is part of the tree.
TestDirs ==
    UNION {{[files |-> F, listed |-> l] : l \in Perms(F)} : F \in SUBSET (Tests \cup {"a.c"})}
NoTestsDir == [files |-> {}, listed |-> <<>>]
TestLimits == {0, 1, 2}

\* ------------------------------------------------------------------ state
VARIABLES
    prog,          \* the script that is run on this disk
    diff,          \* git diff-tree of the fix commit: the changed files
    cov,           \* the files each test of each commit's suite covers, once it ran
    tree,          \* working tree: checked-out commit, commit of the built binaries
    ckpt,          \* the vuln checkpoint file: NoFile or the tokens on disk
    csv,           \* the Phase-1 CSV file: NoFile or its lines (header, rows)
    pc,            \* position of the running process
    cached_data,   \* the dict load_checkpoint / load_cache / load_json returned
    results,       \* results / vuln_results: test name -> relevant files
    target_files,  \* the changed-file set this run works with
    suite,         \* the test suite being iterated
    idx,           \* position in suite
    buffer,        \* rows waiting for a flush (CSVManager.buffer_p1, csv_buffer)
    saveDoc,       \* the dict a save in progress is writing
    saveRet,       \* where the run continues after the save
    runs,          \* invocations started so far
    faults,        \* failures injected so far
    work,          \* expensive steps the current invocation has performed
    ranV,          \* vuln-suite tests the current invocation has executed
    doneV,         \* vuln-suite tests that finished in an invocation killed in its vuln loop
    startCkpt,     \* the checkpoint file as the current invocation found it
    fixDone,       \* an earlier invocation completed the fix build and suite
    saveFailed,    \* what the saves that failed in the current invocation were writing
    emitted,       \* the rows the current invocation has emitted, in order
    gitFailed,     \* a git command of the current invocation exited non-zero
    afterFail,     \* steps the current invocation performed after that
    buildFailed,   \* the builds of the current invocation that exited non-zero
    config,        \* build settings in effect in the working tree (Makefile, .bazelrc)
    cur,           \* the commit process_commit / the energy step is working on
    commit_results, \* commit_results['tests'] of the commit being processed
    kept_tests,    \* the tests handed to measure_test, and how far the loop is
    measured,      \* energy measurements the current invocation has executed
    phases,        \* the coverage and energy phases of the invocation, in order
    ranTests,      \* the test commands the coverage loops of the invocation ran
    abandoned,     \* why run_phase_1_coverage returned None, "" when it did not
    energy_file,   \* the energy cache / measurements checkpoint file on disk
    out_csv,       \* the Phase-2 (energy) CSV file: NoFile or its lines
    energy_cache,  \* cache / results_cache: (commit, test) -> measured value
    todos,         \* the tests of the current commit still to measure
    rows_to_process, \* rows_to_process / rows: the rows read from the Phase-1 CSV
    attempts,      \* the (commit, test) the current invocation has measured
    failed,        \* those whose measurement returned None
    loadedCache,   \* the cache as the current invocation loaded it
    failedBefore,  \* the (commit, test) whose measurement failed in an earlier invocation
    perf_in,       \* one measurement's environment: pre-run, duration, perf exit and output
    iterations,    \* the loop count the measure function computed (0: not yet)
    metrics,       \* what the measure function returned
    stored,        \* what the caller put in the energy cache for the (commit, test)
    gcda,          \* a .gcda file a test run left behind: directory, file name
    source_name,   \* the source file a coverage collector resolved it to
    tests_dir,     \* the test files of the checked-out tree and the order its lists name them in
    TEST_LIMIT,    \* the TEST_LIMIT setting, 0 for None
    enumerations,  \* the suites the enumerations of that tree returned, in order
    pairs,         \* the (vuln, fix) pairs main read from the input CSV
    changed,       \* git diff-tree of each fix commit
    covers,        \* the files the test covers in the build of each commit
    ckpts,         \* the Phase-1 checkpoint files of the cache directory, by name
    pair_i,        \* the pair main is working on
    buffer_p2,     \* CSVManager.buffer_p2
    interval,      \* CSVManager.interval
    added_p1,      \* the rows add_p1 was called with, in order
    added_p2,      \* the rows add_p2 was called with, in order
    start_files,   \* the two CSV files as the manager found them
    flushed_all,   \* flush_all was the last call
    procs,         \* the two concurrent invocations: position, results, loop index, the
                   \* dict of the save under way and the dict of the last finished save
    saved_by,      \* the tests whose result each invocation has written to the checkpoint
    last_writer    \* the invocation that wrote to the checkpoint file last, 0 for none

\* The state of the single-function specifications.
nameVars == <<gcda, source_name>>
enumVars == <<tests_dir, TEST_LIMIT, enumerations>>
pairVars == <<pairs, changed, covers, ckpts, pair_i>>
managerVars == <<buffer_p2, interval, added_p1, added_p2, start_files, flushed_all>>
concVars == <<procs, saved_by, last_writer>>
unitVars == <<nameVars, enumVars, pairVars, managerVars, concVars>>
inputVars == <<prog, diff, cov, unitVars>>
diskVars == <<tree, ckpt, csv, config, energy_file, out_csv>>
procVars == <<cached_data, results, target_files, suite, idx, buffer, saveDoc, saveRet>>
histVars == <<work, ranV, doneV, startCkpt, fixDone, saveFailed, emitted,
              gitFailed, afterFail, buildFailed>>
pipeVars == <<cur, commit_results, kept_tests, measured, phases, ranTests, abandoned>>
measureVars == <<perf_in, iterations, metrics, stored>>
energyVars == <<energy_cache, todos, rows_to_process, attempts, failed, loadedCache, failedBefore,
                measureVars>>
vars == <<inputVars, diskVars, pc, procVars, runs, faults, histVars, pipeVars, energyVars>>
\* Everything of the pipelines but the script and the position in it.
oldVars == <<diff, cov, diskVars, procVars, runs, faults, histVars, pipeVars, energyVars>>
\* What a step of one single-function specification leaves alone.
notNameVars == <<prog, oldVars, enumVars, pairVars, managerVars, concVars>>
notEnumVars == <<prog, oldVars, nameVars, pairVars, managerVars, concVars>>
notConcVars == <<prog, diff, tree, csv, config, energy_file, out_csv, pc, procVars, runs,
                 faults, histVars, pipeVars, energyVars, nameVars, enumVars, pairVars,
                 managerVars>>
notManagerVars == <<prog, diff, cov, tree, ckpt, config, energy_file, pc, cached_data, results,
                    target_files, suite, idx, saveDoc, saveRet, runs, histVars, pipeVars,
                    energyVars, nameVars, enumVars, pairVars, interval, start_files,
                    concVars>>
notPairVars == <<prog, diff, cov, tree, ckpt, config, energy_file, out_csv, suite, idx, buffer,
                 saveDoc, saveRet, runs, faults, histVars, pipeVars, energyVars, nameVars,
                 enumVars, pairs, changed, covers, managerVars, concVars>>

\* Coverage of one test run: the .gcda files the built binaries leave behind.
\* A test covers the same files every time it is run on the same build; a test
\* the built binaries do not have leaves nothing.
Outcomes(t) ==
    IF tree.built # NONE /\ <<tree.built, t>> \in SuitePairs
    THEN (IF cov[<<tree.built, t>>] = Unknown THEN CovChoices(t)
          ELSE {cov[<<tree.built, t>>]})
    ELSE {{}}
Learn(t, covered) ==
    IF tree.built # NONE /\ <<tree.built, t>> \in SuitePairs
    THEN [cov EXCEPT ![<<tree.built, t>>] = covered] ELSE cov

Init ==
    /\ prog \in Progs \cup PipeProgs \cup EnergyProgs \cup MeasureProgs \cup NameProgs
               \cup EnumProgs \cup PairProgs \cup ManagerProgs \cup ConcProgs
    /\ diff \in DiffChoices
    /\ cov = [p \in SuitePairs |-> Unknown]
    /\ tree = [head |-> BASE, built |-> NONE]
    /\ ckpt = NoFile
    /\ csv \in (IF prog = "phase2" THEN P1Choices \cup P1MasterChoices
                ELSE IF prog \in EnergyProgs THEN P1Choices
                ELSE IF prog \in ManagerProgs THEN ManagerP1Files ELSE {NoFile})
    /\ pc = "idle"
    /\ cached_data = EmptyDoc
    /\ results = EmptyMap
    /\ target_files = {}
    /\ suite = <<>>
    /\ idx = 1
    /\ buffer = <<>>
    /\ saveDoc = EmptyDoc
    /\ saveRet = ""
    /\ runs = 0
    /\ faults = 0
    /\ work = {}
    /\ ranV = {}
    /\ doneV = {}
    /\ startCkpt = NoFile
    /\ fixDone = FALSE
    /\ saveFailed = {}
    /\ emitted = <<>>
    /\ gitFailed = FALSE
    /\ afterFail = {}
    /\ buildFailed = {}
    /\ config = {}
    /\ cur = NONE
    /\ commit_results = <<>>
    /\ kept_tests = <<>>
    /\ measured = {}
    /\ phases = <<>>
    /\ ranTests = {}
    /\ abandoned = ""
    /\ energy_file = NoEnergyFile
    /\ out_csv \in (IF prog \in ManagerProgs THEN ManagerP2Files ELSE {NoFile})
    /\ energy_cache = EmptyCache
    /\ todos = <<>>
    /\ rows_to_process = <<>>
    /\ attempts = {}
    /\ failed = {}
    /\ loadedCache = EmptyCache
    /\ failedBefore = {}
    /\ perf_in \in (IF prog \in MeasureProgs THEN PerfInputs ELSE {NoPerf})
    /\ iterations = 0
    /\ metrics = None
    /\ stored = {}
    /\ gcda \in (IF prog \in NameProgs THEN GcdaFiles ELSE {NoGcda})
    /\ source_name = NoName
    /\ tests_dir \in (IF prog \in EnumProgs THEN TestDirs ELSE {NoTestsDir})
    /\ TEST_LIMIT \in (IF prog \in EnumProgs THEN TestLimits ELSE {0})
    /\ enumerations = <<>>
    /\ pairs \in (IF prog \in PairProgs THEN PairLists ELSE {<<>>})
    /\ changed \in (IF prog \in PairProgs THEN ChangedChoices ELSE {EmptyMap})
    /\ covers \in (IF prog \in PairProgs THEN CoverChoices ELSE {EmptyMap})
    /\ ckpts = NoCheckpoints
    /\ pair_i = 1
    /\ buffer_p2 = <<>>
    /\ interval \in (IF prog \in ManagerProgs THEN {2, write_interval} ELSE {write_interval})
    /\ added_p1 = <<>>
    /\ added_p2 = <<>>
    /\ start_files = [p1 |-> csv, p2 |-> out_csv]
    /\ flushed_all = FALSE
    /\ procs = [p \in Invocations |-> IF prog \in ConcProgs THEN FreshInvocation
                                      ELSE NoInvocation]
    /\ saved_by = [p \in Invocations |-> {}]
    /\ last_writer = 0

\* ------------------------------------------------------- shared plumbing
\* A shell-out or a write that may fail; failures are bounded by MaxFaults.
Fault(ok) ==
    /\ ok \/ faults < MaxFaults
    /\ faults' = IF ok THEN faults ELSE faults + 1

\* Bookkeeping of an expensive step of the current invocation.
Did(op) ==
    /\ work' = work \cup {op}
    /\ afterFail' = IF gitFailed THEN afterFail \cup {op} ELSE afterFail

\* A new process, or a dead one, holds nothing of the pipeline in memory.
ResetPipe ==
    /\ cur' = NONE
    /\ commit_results' = <<>>
    /\ kept_tests' = <<>>
    /\ measured' = {}
    /\ phases' = <<>>
    /\ ranTests' = {}
    /\ abandoned' = ""

\* Nothing of the energy phase is left in memory either; what failed in
\* this invocation is remembered as having failed before.
ResetEnergy ==
    /\ energy_cache' = EmptyCache
    /\ todos' = <<>>
    /\ rows_to_process' = <<>>
    /\ attempts' = {}
    /\ failed' = {}
    /\ loadedCache' = EmptyCache
    /\ failedBefore' = failedBefore \cup failed
    /\ UNCHANGED measureVars

Stopped == pc \in {"idle", "exit", "crashed", "killed"}

InVulnLoop ==
    \/ pc \in {"rvp_test", "p1_vtest", "gp_vtest"}
    \/ pc \in {"save_open", "save_write"} /\ saveRet \in {"rvp_test", "p1_vtest", "gp_vtest"}

\* The script is started: python3 <script>. Nothing of an earlier process
\* is left in memory; the disk is as the earlier invocations left it.
Start ==
    /\ Stopped
    /\ runs < MaxRuns
    /\ runs' = runs + 1
    /\ pc' = "main"
    /\ cached_data' = EmptyDoc
    /\ results' = EmptyMap
    /\ target_files' = {}
    /\ suite' = <<>>
    /\ idx' = 1
    /\ buffer' = <<>>
    /\ saveDoc' = EmptyDoc
    /\ saveRet' = ""
    /\ work' = {}
    /\ ranV' = {}
    /\ startCkpt' = ckpt
    /\ fixDone' = (fixDone \/ "f_suite" \in work)
    /\ saveFailed' = {}
    /\ emitted' = <<>>
    /\ gitFailed' = FALSE
    /\ afterFail' = {}
    /\ buildFailed' = {}
    /\ ResetPipe
    /\ ResetEnergy
    /\ UNCHANGED <<inputVars, diskVars, faults, doneV>>

\* The process is killed (SIGKILL, power loss) between two steps. A kill
\* between the open(path, 'w') of a save and its write leaves the truncated,
\* empty file behind.
Kill ==
    /\ ~Stopped
    /\ pc' = "killed"
    /\ doneV' = IF InVulnLoop THEN doneV \cup ranV ELSE doneV
    /\ cached_data' = EmptyDoc
    /\ results' = EmptyMap
    /\ target_files' = {}
    /\ suite' = <<>>
    /\ idx' = 1
    /\ buffer' = <<>>
    /\ saveDoc' = EmptyDoc
    /\ saveRet' = ""
    /\ work' = {}
    /\ ranV' = {}
    /\ startCkpt' = NoFile
    /\ fixDone' = (fixDone \/ "f_suite" \in work)
    /\ saveFailed' = {}
    /\ emitted' = <<>>
    /\ gitFailed' = FALSE
    /\ afterFail' = {}
    /\ buildFailed' = {}
    /\ ResetPipe
    /\ ResetEnergy
    /\ UNCHANGED <<inputVars, diskVars, runs, faults>>

\* The build configuration is a tracked file (.bazelrc) that git reset --hard
\* restores, or a generated one (Makefile, CMake cache) that git clean removes.
ConfigTracked == prog = "tensorflow"

\* clean_repo: git reset --hard, then git clean -fdx; neither exit status is
\* looked at. A clean that succeeds removes the built binaries.
CleanRepo(next) ==
    /\ \E reset_ok, clean_ok \in BOOLEAN :
          /\ Fault(reset_ok /\ clean_ok)
          /\ tree' = IF clean_ok THEN [tree EXCEPT !.built = NONE] ELSE tree
          /\ config' = IF (IF ConfigTracked THEN reset_ok ELSE clean_ok) THEN {} ELSE config
          /\ gitFailed' = (gitFailed \/ ~reset_ok \/ ~clean_ok)
    /\ pc' = next
    /\ UNCHANGED <<inputVars, energy_file, out_csv, energyVars, pipeVars, buildFailed, ckpt, csv, procVars, runs, work, ranV, doneV,
                   startCkpt, fixDone, saveFailed, emitted, afterFail>>

\* run_command(f"git checkout -f {commit}"): on a non-zero exit the tree
\* stays where it was and the run continues at onFail.
Checkout(commit, op, onOk, onFail) ==
    /\ \E ok \in BOOLEAN :
          /\ Fault(ok)
          /\ tree' = IF ok THEN [tree EXCEPT !.head = commit] ELSE tree
          /\ gitFailed' = (gitFailed \/ ~ok)
          /\ pc' = IF ok THEN onOk ELSE onFail
    /\ Did(op)
    /\ UNCHANGED <<inputVars, energy_file, out_csv, energyVars, config, pipeVars, buildFailed, ckpt, csv, procVars, runs, ranV, doneV,
                   startCkpt, fixDone, saveFailed, emitted>>

\* The coverage build (configure, make): on success the binaries of the
\* checked-out commit are in the tree.
Build(op, onOk, onFail) ==
    /\ \E ok \in BOOLEAN :
          /\ Fault(ok)
          /\ tree' = IF ok THEN [tree EXCEPT !.built = tree.head] ELSE tree
          /\ buildFailed' = IF ok THEN buildFailed ELSE buildFailed \cup {op}
          /\ pc' = IF ok THEN onOk ELSE onFail
    /\ Did(op)
    /\ UNCHANGED <<inputVars, energy_file, out_csv, energyVars, config, pipeVars, ckpt, csv, procVars, runs, ranV, doneV,
                   startCkpt, fixDone, saveFailed, emitted, gitFailed>>

\* What a checkpoint document marks: the status it carries, COMPLETE for
\* vuln_done = True and IN_PROGRESS for vuln_done = False.
Marks(d) ==
    IF d.status # "" THEN d.status
    ELSE IF d.vuln_done = "true" THEN "COMPLETE"
    ELSE "IN_PROGRESS"

\* with open(filepath, 'w') as f: the file is truncated. When the open
\* fails the file keeps its content and the run continues at onFail.
SaveOpen(onFail) ==
    /\ pc = "save_open"
    /\ \E ok \in BOOLEAN :
          /\ Fault(ok)
          /\ ckpt' = IF ok THEN File(<<>>) ELSE ckpt
          /\ pc' = IF ok THEN "save_write" ELSE onFail
          /\ saveFailed' = IF ok THEN saveFailed ELSE saveFailed \cup {Marks(saveDoc)}
    /\ Did("save")
    /\ UNCHANGED <<inputVars, energy_file, out_csv, energyVars, config, pipeVars, buildFailed, tree, csv, procVars, runs, ranV, doneV,
                   startCkpt, fixDone, emitted, gitFailed>>

\* json.dump(data, f, indent=4) and the close: the whole document reaches the
\* file, or the write fails part-way and a strict prefix stays on disk.
SaveWrite(onFail) ==
    /\ pc = "save_write"
    /\ \E ok \in BOOLEAN :
          /\ Fault(ok)
          /\ IF ok THEN ckpt' = File(Serialize(saveDoc))
             ELSE \E p \in Prefixes(Serialize(saveDoc)) : ckpt' = File(p)
          /\ pc' = IF ok THEN saveRet ELSE onFail
          /\ saveFailed' = IF ok THEN saveFailed ELSE saveFailed \cup {Marks(saveDoc)}
    /\ UNCHANGED <<inputVars, energy_file, out_csv, energyVars, config, pipeVars, buildFailed, tree, csv, procVars, runs, work, ranV, doneV,
                   startCkpt, fixDone, emitted, gitFailed, afterFail>>

\* The cross-reference without its coverage test: a row for every target,
\* covered or not.
cross_reference_every_target(t_name, covered, vuln_results, targets) ==
    [k \in 1..Len(targets) |->
        LET v_covered == (t_name \in DOMAIN vuln_results)
                         /\ (targets[k] \in vuln_results[t_name])
            f_covered == targets[k] \in covered
        IN Row(IF v_covered THEN t_name ELSE "", IF f_covered THEN t_name ELSE "",
               targets[k])]

\* The cross-reference of one fix-suite test with the changed files: a row
\* for every target covered in the vuln results or in the fix run.
RECURSIVE cross_reference(_, _, _, _)
cross_reference(t_name, covered, vuln_results, targets) ==
    IF targets = <<>> THEN <<>>
    ELSE LET target == Head(targets)
             v_covered == (t_name \in DOMAIN vuln_results)
                          /\ (target \in vuln_results[t_name])
             f_covered == target \in covered
             v_entry == IF v_covered THEN t_name ELSE ""
             f_entry == IF f_covered THEN t_name ELSE ""
         IN (IF v_covered \/ f_covered THEN <<Row(v_entry, f_entry, target)>> ELSE <<>>)
            \o cross_reference(t_name, covered, vuln_results, Tail(targets))

\* --------------------------------------------- src/vuln_fix_testCompile.py
\* main: the changed files of the fix commit; nothing to do without them.
main ==
    /\ prog = "vft"
    /\ pc = "main"
    /\ target_files' = diff
    /\ pc' = IF diff = {} THEN "exit" ELSE "rvp_load"
    /\ UNCHANGED <<inputVars, energyVars, pipeVars, diskVars, cached_data, results, suite, idx, buffer, saveDoc,
                   saveRet, runs, faults, histVars>>

\* run_vuln_phase without the early return on a COMPLETE checkpoint: the
\* vuln commit is processed whatever the status.
run_vuln_phase_load_no_return ==
    /\ prog = "vft"
    /\ pc = "rvp_load"
    /\ LET loaded == IF ckpt.exists THEN Parse(ckpt.data)
                     ELSE [ok |-> TRUE, doc |-> EmptyDoc]
       IN IF ~loaded.ok
          THEN /\ pc' = "crashed"
               /\ UNCHANGED cached_data
          ELSE /\ cached_data' = loaded.doc
               /\ pc' = "rvp_clean"
    /\ UNCHANGED <<inputVars, energyVars, pipeVars, diskVars, results, target_files, suite, idx, buffer, saveDoc,
                   saveRet, runs, faults, histVars>>

\* run_vuln_phase, its head: load_checkpoint has no try; a file that does not
\* parse raises out of main. A COMPLETE checkpoint returns its results.
run_vuln_phase_load ==
    /\ prog = "vft"
    /\ pc = "rvp_load"
    /\ LET loaded == IF ckpt.exists THEN Parse(ckpt.data)
                     ELSE [ok |-> TRUE, doc |-> EmptyDoc]
       IN IF ~loaded.ok
          THEN /\ pc' = "crashed"
               /\ UNCHANGED <<cached_data, results>>
          ELSE /\ cached_data' = loaded.doc
               /\ IF loaded.doc.status = "COMPLETE"
                  THEN /\ results' = loaded.doc.results
                       /\ pc' = "rfp_clean"
                  ELSE /\ pc' = "rvp_clean"
                       /\ UNCHANGED results
    /\ UNCHANGED <<inputVars, energyVars, pipeVars, diskVars, target_files, suite, idx, buffer, saveDoc, saveRet,
                   runs, faults, histVars>>

run_vuln_phase_clean ==
    /\ prog = "vft"
    /\ pc = "rvp_clean"
    /\ CleanRepo("rvp_checkout")

\* if not run_command(git checkout -f VULN_COMMIT): return None
run_vuln_phase_checkout ==
    /\ prog = "vft"
    /\ pc = "rvp_checkout"
    /\ Checkout(VULN, "v_checkout", "rvp_build", "exit")

\* if not configure_and_build(PROJECT_DIR): return None
run_vuln_phase_build ==
    /\ prog = "vft"
    /\ pc = "rvp_build"
    /\ Build("v_build", "rvp_suite", "exit")

\* suite = get_test_suite(...); results = cached_data.get("results", {})
run_vuln_phase_suite ==
    /\ prog = "vft"
    /\ pc = "rvp_suite"
    /\ suite' = get_tests(tree.head)
    /\ results' = GetResults(cached_data)
    /\ idx' = 1
    /\ pc' = "rvp_test"
    /\ UNCHANGED <<inputVars, energyVars, pipeVars, diskVars, cached_data, target_files, buffer, saveDoc, saveRet,
                   runs, faults, histVars>>

\* The vuln loop when a recorded test replaces the results instead of being
\* added to them: what was recorded or loaded before is dropped.
VulnTest_newest_only(loop, progress) ==
    /\ pc = loop
    /\ idx <= Len(suite)
    /\ idx' = idx + 1
    /\ LET t_name == suite[idx]
       IN IF t_name \in DOMAIN results
          THEN /\ pc' = loop
               /\ UNCHANGED <<cov, results, cached_data, saveDoc, saveRet, work, ranV,
                              afterFail>>
          ELSE \E covered \in Outcomes(t_name) :
               LET relevant == covered \cap target_files
               IN /\ cov' = Learn(t_name, covered)
                  /\ ranV' = ranV \cup {t_name}
                  /\ Did("v_test")
                  /\ IF relevant # {}
                     THEN /\ results' = Put(EmptyMap, t_name, relevant)
                          /\ cached_data' = IF cached_data.has_results
                                            THEN [cached_data EXCEPT !.results = results']
                                            ELSE cached_data
                          /\ saveDoc' = [progress EXCEPT !.results = results']
                          /\ saveRet' = loop
                          /\ pc' = "save_open"
                     ELSE /\ pc' = loop
                          /\ UNCHANGED <<results, cached_data, saveDoc, saveRet>>
    /\ UNCHANGED <<unitVars, prog, diff, energyVars, pipeVars, buildFailed, diskVars, target_files, suite, buffer, runs, faults, doneV,
                   startCkpt, fixDone, saveFailed, emitted, gitFailed>>
\* One iteration of the vuln loop: a test already in results is skipped;
\* otherwise it is run and, when it covers a changed file, recorded and the
\* IN_PROGRESS checkpoint saved.
VulnTest(loop, progress) ==
    /\ pc = loop
    /\ idx <= Len(suite)
    /\ idx' = idx + 1
    /\ LET t_name == suite[idx]
       IN IF t_name \in DOMAIN results
          THEN /\ pc' = loop
               /\ UNCHANGED <<cov, results, cached_data, saveDoc, saveRet, work, ranV,
                              afterFail>>
          ELSE \E covered \in Outcomes(t_name) :
               LET relevant == covered \cap target_files
               IN /\ cov' = Learn(t_name, covered)
                  /\ ranV' = ranV \cup {t_name}
                  /\ Did("v_test")
                  /\ IF relevant # {}
                     THEN /\ results' = Put(results, t_name, relevant)
                          /\ cached_data' = IF cached_data.has_results
                                            THEN [cached_data EXCEPT !.results = results']
                                            ELSE cached_data
                          /\ saveDoc' = [progress EXCEPT !.results = results']
                          /\ saveRet' = loop
                          /\ pc' = "save_open"
                     ELSE /\ pc' = loop
                          /\ UNCHANGED <<results, cached_data, saveDoc, saveRet>>
    /\ UNCHANGED <<unitVars, prog, diff, energyVars, pipeVars, buildFailed, diskVars, target_files, suite, buffer, runs, faults, doneV,
                   startCkpt, fixDone, saveFailed, emitted, gitFailed>>

\* After the loop the checkpoint that marks the vuln commit complete is saved.
VulnComplete(loop, complete, next) ==
    /\ pc = loop
    /\ idx > Len(suite)
    /\ saveDoc' = [complete EXCEPT !.results = results]
    /\ saveRet' = next
    /\ pc' = "save_open"
    /\ UNCHANGED <<inputVars, energyVars, pipeVars, diskVars, cached_data, results, target_files, suite, idx,
                   buffer, runs, faults, histVars>>

\* The dicts the saves write, before the results are filled in.
InProgress == StatusDoc("IN_PROGRESS", EmptyMap)
Complete == StatusDoc("COMPLETE", EmptyMap)

run_vuln_phase_test ==
    /\ prog = "vft"
    /\ VulnTest("rvp_test", InProgress)

\* run_vuln_phase returning its results without the save of the COMPLETE
\* checkpoint.
run_vuln_phase_complete_no_save ==
    /\ prog = "vft"
    /\ pc = "rvp_test"
    /\ idx > Len(suite)
    /\ pc' = "rfp_clean"
    /\ UNCHANGED <<inputVars, energyVars, pipeVars, diskVars, procVars, runs, faults, histVars>>

\* save_checkpoint({"status": "COMPLETE", ...}); return results
run_vuln_phase_complete ==
    /\ prog = "vft"
    /\ VulnComplete("rvp_test", Complete, "rfp_clean")

\* save_checkpoint: any exception of the open or of the dump is logged and
\* swallowed; the caller goes on.
save_checkpoint_open ==
    /\ prog = "vft"
    /\ SaveOpen(saveRet)

save_checkpoint_write ==
    /\ prog = "vft"
    /\ SaveWrite(saveRet)

run_fix_phase_clean ==
    /\ prog = "vft"
    /\ pc = "rfp_clean"
    /\ CleanRepo("rfp_checkout")

\* if not run_command(git checkout -f FIX_COMMIT): return
run_fix_phase_checkout ==
    /\ prog = "vft"
    /\ pc = "rfp_checkout"
    /\ Checkout(FIX, "f_checkout", "rfp_build", "exit")

\* if not configure_and_build(PROJECT_DIR): return
run_fix_phase_build ==
    /\ prog = "vft"
    /\ pc = "rfp_build"
    /\ Build("f_build", "rfp_open", "exit")

\* The CSV is opened for append; the header goes in when the file is new.
run_fix_phase_open ==
    /\ prog = "vft"
    /\ pc = "rfp_open"
    /\ csv' = IF csv.exists THEN csv ELSE File(<<Header>>)
    /\ suite' = get_tests(tree.head)
    /\ idx' = 1
    /\ pc' = "rfp_test"
    /\ UNCHANGED <<inputVars, energy_file, out_csv, energyVars, config, pipeVars, tree, ckpt, cached_data, results, target_files, buffer,
                   saveDoc, saveRet, runs, faults, histVars>>

\* One iteration of the fix loop: run the test, write its rows at once.
run_fix_phase_test ==
    /\ prog = "vft"
    /\ pc = "rfp_test"
    /\ idx <= Len(suite)
    /\ \E covered \in Outcomes(suite[idx]) :
       LET t_name == suite[idx]
           rows == cross_reference(t_name, covered, results, SetToSeq(target_files))
       IN /\ cov' = Learn(t_name, covered)
          /\ csv' = File(csv.data \o rows)
          /\ emitted' = emitted \o rows
    /\ idx' = idx + 1
    /\ Did("f_test")
    /\ UNCHANGED <<unitVars, prog, diff, energy_file, out_csv, energyVars, config, pipeVars, buildFailed, tree, ckpt, pc, cached_data, results, target_files, suite,
                   buffer, saveDoc, saveRet, runs, faults, ranV, doneV, startCkpt,
                   fixDone, saveFailed, gitFailed>>

\* Rows of the tests in vuln_results that the fix suite did not have.
RECURSIVE vuln_only_rows(_, _, _)
vuln_only_rows(names, vuln_results, targets) ==
    IF names = <<>> THEN <<>>
    ELSE LET t_name == Head(names)
             hit == SelectSeq(targets, LAMBDA target : target \in vuln_results[t_name])
         IN [k \in 1..Len(hit) |-> Row(t_name, "", hit[k])]
            \o vuln_only_rows(Tail(names), vuln_results, targets)

\* After the loop: the tests present in vuln but not in the fix suite, close.
run_fix_phase_rest ==
    /\ prog = "vft"
    /\ pc = "rfp_test"
    /\ idx > Len(suite)
    /\ LET processed_tests == Range(suite)
           rows == vuln_only_rows(SetToSeq((DOMAIN results) \ processed_tests), results,
                                  SetToSeq(target_files))
       IN /\ csv' = File(csv.data \o rows)
          /\ emitted' = emitted \o rows
    /\ pc' = "exit"
    /\ Did("f_suite")
    /\ UNCHANGED <<inputVars, energy_file, out_csv, energyVars, config, pipeVars, buildFailed, tree, ckpt, procVars, runs, faults, ranV, doneV,
                   startCkpt, fixDone, saveFailed, gitFailed>>

\* ------------------------------------------------ src/docker/vfec_init.py

\* run_phase_1, its head: load_cache answers {} for a file that does not
\* parse; a COMPLETE_P1 checkpoint ends Phase 1 at once.
run_phase_1_load ==
    /\ prog = "init"
    /\ pc = "main"
    /\ LET loaded == IF ckpt.exists THEN Parse(ckpt.data)
                     ELSE [ok |-> TRUE, doc |-> EmptyDoc]
           cache == IF loaded.ok THEN loaded.doc ELSE EmptyDoc
       IN /\ cached_data' = cache
          /\ pc' = IF cache.status = "COMPLETE_P1" THEN "exit" ELSE "p1_clean"
    /\ UNCHANGED <<inputVars, energyVars, pipeVars, diskVars, results, target_files, suite, idx, buffer, saveDoc,
                   saveRet, runs, faults, histVars>>

run_phase_1_clean ==
    /\ prog = "init"
    /\ pc = "p1_clean"
    /\ CleanRepo("p1_checkout")

\* if not run_command(git checkout -f fix): return False
run_phase_1_checkout ==
    /\ prog = "init"
    /\ pc = "p1_checkout"
    /\ Checkout(FIX, "d_checkout", "p1_diff", "exit")

\* target_files = get_git_diff_files(...); vuln_results = cache.get("results", {});
\* the vuln part is entered unless the cache says vuln_done.
DiffAndResults(vulnDone, onVuln, onFix) ==
    /\ target_files' = diff
    /\ results' = GetResults(cached_data)
    /\ pc' = IF diff = {} THEN "exit"
             ELSE IF vulnDone THEN onFix ELSE onVuln
    /\ UNCHANGED <<inputVars, energyVars, pipeVars, diskVars, cached_data, suite, idx, buffer, saveDoc, saveRet,
                   runs, faults, histVars>>

run_phase_1_diff ==
    /\ prog = "init"
    /\ pc = "p1_diff"
    /\ DiffAndResults(cached_data.vuln_done = "true", "p1_vclean", "p1_fclean")

run_phase_1_vuln_clean ==
    /\ prog = "init"
    /\ pc = "p1_vclean"
    /\ CleanRepo("p1_vcheckout")

\* vfec_output.run_command(git checkout -f vuln): the result is dropped.
run_phase_1_vuln_checkout ==
    /\ prog = "init"
    /\ pc = "p1_vcheckout"
    /\ Checkout(VULN, "v_checkout", "p1_vbuild", "p1_vbuild")

\* project_engine.build_coverage(PROJECT_DIR): the result is dropped.
run_phase_1_vuln_build ==
    /\ prog = "init"
    /\ pc = "p1_vbuild"
    /\ Build("v_build", "p1_vsuite", "p1_vsuite")

\* suite = get_tests(...) of the tree as it is.
Suite(next) ==
    /\ suite' = get_tests(tree.head)
    /\ idx' = 1
    /\ pc' = next
    /\ UNCHANGED <<inputVars, energyVars, pipeVars, diskVars, cached_data, results, target_files, buffer, saveDoc,
                   saveRet, runs, faults, histVars>>

run_phase_1_vuln_suite ==
    /\ prog = "init"
    /\ pc = "p1_vsuite"
    /\ Suite("p1_vtest")

VulnDoneFalse == VulnDoneDoc("false", EmptyMap)
VulnDoneTrue == VulnDoneDoc("true", EmptyMap)

run_phase_1_vuln_test ==
    /\ prog = "init"
    /\ VulnTest("p1_vtest", VulnDoneFalse)

\* save_cache({"vuln_done": True, "results": vuln_results})
run_phase_1_vuln_complete ==
    /\ prog = "init"
    /\ VulnComplete("p1_vtest", VulnDoneTrue, "p1_fclean")

\* save_cache has no try: an exception of the open or of the dump leaves
\* run_phase_1 and main, and the process ends with a traceback.
save_cache_open ==
    /\ prog = "init"
    /\ SaveOpen("crashed")

save_cache_write ==
    /\ prog = "init"
    /\ SaveWrite("crashed")

run_phase_1_fix_clean ==
    /\ prog = "init"
    /\ pc = "p1_fclean"
    /\ CleanRepo("p1_fcheckout")

run_phase_1_fix_checkout ==
    /\ prog = "init"
    /\ pc = "p1_fcheckout"
    /\ Checkout(FIX, "f_checkout", "p1_fbuild", "p1_fbuild")

run_phase_1_fix_build ==
    /\ prog = "init"
    /\ pc = "p1_fbuild"
    /\ Build("f_build", "p1_fsuite", "p1_fsuite")

run_phase_1_fix_suite ==
    /\ prog = "init"
    /\ pc = "p1_fsuite"
    /\ Suite("p1_ftest")

\* CSVManager.flush / flush_buffer_to_csv: nothing for an empty buffer;
\* otherwise the rows are appended (after the header when the file is new)
\* and the buffer cleared; a failing write is logged and the buffer kept.
Flushed(file, rows, ok) ==
    IF rows = <<>> \/ ~ok THEN file
    ELSE File((IF file.exists THEN file.data ELSE <<Header>>) \o rows)
FlushedBuffer(rows, ok) == IF ok THEN <<>> ELSE rows

\* One iteration of the fix loop with buffered rows: add_p1 per row, a flush
\* when the buffer has reached the write interval.
FixTestBuffered(loop) ==
    /\ pc = loop
    /\ idx <= Len(suite)
    /\ \E covered \in Outcomes(suite[idx]) :
       LET t_name == suite[idx]
           rows == cross_reference(t_name, covered, results, SetToSeq(target_files))
           full == Len(buffer \o rows) >= write_interval
       IN /\ cov' = Learn(t_name, covered)
          /\ csv' = IF full THEN Flushed(csv, buffer \o rows, TRUE) ELSE csv
          /\ buffer' = IF full THEN <<>> ELSE buffer \o rows
          /\ emitted' = emitted \o rows
    /\ idx' = idx + 1
    /\ Did("f_test")
    /\ UNCHANGED <<unitVars, prog, diff, energy_file, out_csv, energyVars, config, pipeVars, buildFailed, tree, ckpt, pc, cached_data, results, target_files, suite,
                   saveDoc, saveRet, runs, faults, ranV, doneV, startCkpt,
                   fixDone, saveFailed, gitFailed>>

run_phase_1_fix_test ==
    /\ prog = "init"
    /\ FixTestBuffered("p1_ftest")

\* After the loop: the last flush.
FlushAll(loop, next) ==
    /\ pc = loop
    /\ idx > Len(suite)
    /\ \E ok \in BOOLEAN :
          /\ Fault(ok \/ buffer = <<>>)
          /\ csv' = Flushed(csv, buffer, ok)
          /\ buffer' = FlushedBuffer(buffer, ok)
    /\ pc' = next
    /\ Did("f_suite")
    /\ UNCHANGED <<inputVars, energy_file, out_csv, energyVars, config, pipeVars, buildFailed, tree, ckpt, cached_data, results, target_files, suite, idx,
                   saveDoc, saveRet, runs, ranV, doneV, startCkpt, fixDone,
                   saveFailed, emitted, gitFailed>>

run_phase_1_flush ==
    /\ prog = "init"
    /\ FlushAll("p1_ftest", "p1_done")

\* cache["status"] = "COMPLETE_P1"; save_cache(checkpoint_path, cache)
run_phase_1_done ==
    /\ prog = "init"
    /\ pc = "p1_done"
    /\ cached_data' = [cached_data EXCEPT !.status = "COMPLETE_P1"]
    /\ saveDoc' = cached_data'
    /\ saveRet' = "exit"
    /\ pc' = "save_open"
    /\ UNCHANGED <<inputVars, energyVars, pipeVars, diskVars, results, target_files, suite, idx, buffer, runs,
                   faults, histVars>>

\* ------------------------------------ src/docker/gpac_docker/gpac_pipeline.py
\* f"{vuln},{fix}" in f.read(): the text of the file holds the vuln commit,
\* a comma and the fix commit next to each other.
FoundInMasterCsv(file) ==
    /\ file.exists
    /\ \E n \in 1..Len(file.data) : \E k \in 1..(Len(file.data[n]) - 1) :
          file.data[n][k] = VULN /\ file.data[n][k + 1] = FIX

run_phase_1_coverage_skip ==
    /\ prog = "gpac"
    /\ pc = "main"
    /\ pc' = IF FoundInMasterCsv(csv) THEN "exit" ELSE "gp_clean"
    /\ UNCHANGED <<inputVars, energyVars, pipeVars, diskVars, procVars, runs, faults, histVars>>

run_phase_1_coverage_clean ==
    /\ prog = "gpac"
    /\ pc = "gp_clean"
    /\ CleanRepo("gp_checkout")

\* if not run_command(git checkout -f fix): return False
run_phase_1_coverage_checkout ==
    /\ prog = "gpac"
    /\ pc = "gp_checkout"
    /\ Checkout(FIX, "d_checkout", "gp_load", "exit")

\* target_files, then cached_data = load_json(...), vuln_results.
run_phase_1_coverage_load ==
    /\ prog = "gpac"
    /\ pc = "gp_load"
    /\ LET loaded == IF ckpt.exists THEN Parse(ckpt.data)
                     ELSE [ok |-> TRUE, doc |-> EmptyDoc]
           cache == IF loaded.ok /\ diff # {} THEN loaded.doc ELSE EmptyDoc
       IN /\ target_files' = diff
          /\ cached_data' = cache
          /\ results' = GetResults(cache)
          /\ pc' = IF diff = {} THEN "exit"
                   ELSE IF cache.status # "COMPLETE" THEN "gp_vclean" ELSE "gp_fclean"
    /\ UNCHANGED <<inputVars, energyVars, pipeVars, diskVars, suite, idx, buffer, saveDoc, saveRet, runs, faults,
                   histVars>>

run_phase_1_coverage_vuln_clean ==
    /\ prog = "gpac"
    /\ pc = "gp_vclean"
    /\ CleanRepo("gp_vcheckout")

run_phase_1_coverage_vuln_checkout ==
    /\ prog = "gpac"
    /\ pc = "gp_vcheckout"
    /\ Checkout(VULN, "v_checkout", "gp_vbuild", "gp_vbuild")

run_phase_1_coverage_vuln_build ==
    /\ prog = "gpac"
    /\ pc = "gp_vbuild"
    /\ Build("v_build", "gp_vsuite", "gp_vsuite")

run_phase_1_coverage_vuln_suite ==
    /\ prog = "gpac"
    /\ pc = "gp_vsuite"
    /\ Suite("gp_vtest")

run_phase_1_coverage_vuln_test ==
    /\ prog = "gpac"
    /\ VulnTest("gp_vtest", InProgress)

run_phase_1_coverage_vuln_complete ==
    /\ prog = "gpac"
    /\ VulnComplete("gp_vtest", Complete, "gp_fclean")

\* save_json: any exception is logged and swallowed.
save_json_open ==
    /\ prog = "gpac"
    /\ SaveOpen(saveRet)

save_json_write ==
    /\ prog = "gpac"
    /\ SaveWrite(saveRet)

run_phase_1_coverage_fix_clean ==
    /\ prog = "gpac"
    /\ pc = "gp_fclean"
    /\ CleanRepo("gp_fcheckout")

run_phase_1_coverage_fix_checkout ==
    /\ prog = "gpac"
    /\ pc = "gp_fcheckout"
    /\ Checkout(FIX, "f_checkout", "gp_fbuild", "gp_fbuild")

run_phase_1_coverage_fix_build ==
    /\ prog = "gpac"
    /\ pc = "gp_fbuild"
    /\ Build("f_build", "gp_fsuite", "gp_fsuite")

run_phase_1_coverage_fix_suite ==
    /\ prog = "gpac"
    /\ pc = "gp_fsuite"
    /\ Suite("gp_ftest")

run_phase_1_coverage_fix_test ==
    /\ prog = "gpac"
    /\ FixTestBuffered("gp_ftest")

run_phase_1_coverage_flush ==
    /\ prog = "gpac"
    /\ FlushAll("gp_ftest", "exit")

\* ------------------------------- main of vfec_init.py and gpac_pipeline.py
\* The pairs of the input CSV are processed in order; p1_ckpt is
\* ckpt_cov_{vuln[:8]}.json for every pair.
p1_ckpt(pair) == First8(pair.vuln)
PairRow(pair, row) == [row EXCEPT ![2] = pair.vuln, ![4] = pair.fix]
PairRows(pair, rows) == [k \in DOMAIN rows |-> PairRow(pair, rows[k])]
\* f"{vuln},{fix}" in f.read() for the pair at hand.
PairFoundInMasterCsv(file, pair) ==
    /\ file.exists
    /\ \E n \in 1..Len(file.data) : \E k \in 1..(Len(file.data[n]) - 1) :
          file.data[n][k] = pair.vuln /\ file.data[n][k + 1] = pair.fix
load_cache(file) ==
    IF file.exists /\ Parse(file.data).ok THEN Parse(file.data).doc ELSE EmptyDoc

\* The head of Phase 1 for the next pair: the skip (COMPLETE_P1 in the
\* checkpoint, or the pair found in the master CSV), the changed files, the
\* checkpoint's results, and whether the vuln phase is still to run.
main_phase_1_load ==
    /\ prog \in PairProgs
    /\ pc = "idle"
    /\ pair_i <= Len(pairs)
    /\ LET pair == pairs[pair_i]
           cache == load_cache(ckpts[p1_ckpt(pair)])
           skip == IF prog = "init_pairs" THEN cache.status = "COMPLETE_P1"
                   ELSE PairFoundInMasterCsv(csv, pair)
           vuln_todo == IF prog = "init_pairs" THEN cache.vuln_done # "true"
                        ELSE cache.status # "COMPLETE"
       IN IF skip
          THEN /\ pair_i' = pair_i + 1
               /\ UNCHANGED <<pc, cached_data, results, target_files>>
          ELSE /\ cached_data' = cache
               /\ results' = GetResults(cache)
               /\ target_files' = changed[pair.fix]
               /\ pc' = IF vuln_todo THEN "pair_vuln" ELSE "pair_fix"
               /\ UNCHANGED pair_i
    /\ UNCHANGED <<csv, ckpts, notPairVars>>

\* The vuln phase of the pair: the test is run unless the results already
\* name it, what it covers of the changed files is recorded, and the
\* checkpoint that marks the vuln commit done is saved.
main_phase_1_vuln ==
    /\ prog \in PairProgs
    /\ pc = "pair_vuln"
    /\ LET pair == pairs[pair_i]
           relevant == covers[pair.vuln] \cap target_files
           vuln_results == IF "t1" \notin DOMAIN results /\ relevant # {}
                           THEN Put(results, "t1", relevant) ELSE results
           done == IF prog = "init_pairs" THEN VulnDoneDoc("true", vuln_results)
                   ELSE StatusDoc("COMPLETE", vuln_results)
       IN /\ results' = vuln_results
          /\ cached_data' = IF cached_data.has_results
                            THEN [cached_data EXCEPT !.results = vuln_results]
                            ELSE cached_data
          /\ ckpts' = [ckpts EXCEPT ![p1_ckpt(pair)] = File(Serialize(done))]
          /\ pc' = "pair_fix"
    /\ UNCHANGED <<csv, pair_i, target_files, notPairVars>>

\* The fix phase of the pair: the cross-reference rows are flushed to the
\* master CSV; vfec_init then saves cache with status COMPLETE_P1.
main_phase_1_fix ==
    /\ prog \in PairProgs
    /\ pc = "pair_fix"
    /\ LET pair == pairs[pair_i]
           rows == PairRows(pair, cross_reference("t1", covers[pair.fix], results,
                                                  SetToSeq(target_files)))
           cache == [cached_data EXCEPT !.status = "COMPLETE_P1"]
       IN /\ csv' = Flushed(csv, rows, TRUE)
          /\ IF prog = "init_pairs"
             THEN /\ cached_data' = cache
                  /\ ckpts' = [ckpts EXCEPT ![p1_ckpt(pair)] = File(Serialize(cache))]
             ELSE UNCHANGED <<cached_data, ckpts>>
    /\ pair_i' = pair_i + 1
    /\ pc' = "idle"
    /\ UNCHANGED <<results, target_files, notPairVars>>

NextPairs ==
    \/ main_phase_1_load
    \/ main_phase_1_vuln
    \/ main_phase_1_fix

\* ------------------------------------- src/docker/vfec_output.py CSVManager
\* How one write of flush ends: it succeeds, or it raises with the open
\* having failed (the file is as it was) or, the file opened, with only the
\* first kept lines on disk.
WriteOutcomes(lines) ==
    {[ok |-> TRUE, opened |-> TRUE, kept |-> Len(lines)],
     [ok |-> FALSE, opened |-> FALSE, kept |-> 0]}
    \cup {[ok |-> FALSE, opened |-> TRUE, kept |-> n] : n \in 0..Len(lines)}
\* The flush that writes the header whether or not the file exists.
flush_header_always(file, buf, header, out) ==
    IF buf = <<>> THEN [file |-> file, buffer |-> buf, failed |-> FALSE]
    ELSE LET lines == <<header>> \o buf
             old == IF file.exists THEN file.data ELSE <<>>
         IN IF out.ok THEN [file |-> File(old \o lines), buffer |-> <<>>, failed |-> FALSE]
            ELSE [file |-> IF ~out.opened THEN file
                           ELSE File(old \o SubSeq(lines, 1, IF out.kept < Len(lines)
                                                             THEN out.kept ELSE Len(lines))),
                  buffer |-> buf, failed |-> TRUE]
\* flush: nothing for an empty buffer; else the file is opened for append,
\* the header written when the file did not exist, then the rows, and the
\* buffer cleared; an exception is logged and the buffer kept.
flush(file, buf, header, out) ==
    IF buf = <<>> THEN [file |-> file, buffer |-> buf, failed |-> FALSE]
    ELSE LET lines == (IF file.exists THEN <<>> ELSE <<header>>) \o buf
             old == IF file.exists THEN file.data ELSE <<>>
         IN IF out.ok THEN [file |-> File(old \o lines), buffer |-> <<>>, failed |-> FALSE]
            ELSE [file |-> IF ~out.opened THEN file
                           ELSE File(old \o SubSeq(lines, 1, IF out.kept < Len(lines)
                                                             THEN out.kept ELSE Len(lines))),
                  buffer |-> buf, failed |-> TRUE]
Failures(a, b) == (IF a.failed THEN 1 ELSE 0) + (IF b.failed THEN 1 ELSE 0)

add_p1 ==
    /\ prog \in ManagerProgs
    /\ Len(added_p1) + Len(added_p2) < MaxAdds
    /\ \E row \in ManagerRows : \E out \in WriteOutcomes(<<Header>> \o buffer \o <<row>>) :
          LET appended == Append(buffer, row)
              done == IF Len(appended) >= interval THEN flush(csv, appended, Header, out)
                      ELSE [file |-> csv, buffer |-> appended, failed |-> FALSE]
          IN /\ out.ok \/ Len(appended) >= interval
             /\ faults + Failures(done, done) \div 2 <= MaxFaults
             /\ faults' = faults + Failures(done, done) \div 2
             /\ added_p1' = Append(added_p1, row)
             /\ csv' = done.file
             /\ buffer' = done.buffer
    /\ flushed_all' = FALSE
    /\ UNCHANGED <<out_csv, buffer_p2, added_p2, notManagerVars>>

add_p2 ==
    /\ prog \in ManagerProgs
    /\ Len(added_p1) + Len(added_p2) < MaxAdds
    /\ \E row \in ManagerRows : \E out \in WriteOutcomes(<<Header2>> \o buffer_p2 \o <<row>>) :
          LET line == P2Row(row, EmptyCache)
              appended == Append(buffer_p2, line)
              done == IF Len(appended) >= interval THEN flush(out_csv, appended, Header2, out)
                      ELSE [file |-> out_csv, buffer |-> appended, failed |-> FALSE]
          IN /\ out.ok \/ Len(appended) >= interval
             /\ faults + Failures(done, done) \div 2 <= MaxFaults
             /\ faults' = faults + Failures(done, done) \div 2
             /\ added_p2' = Append(added_p2, line)
             /\ out_csv' = done.file
             /\ buffer_p2' = done.buffer
    /\ flushed_all' = FALSE
    /\ UNCHANGED <<csv, buffer, added_p1, notManagerVars>>

flush_all ==
    /\ prog \in ManagerProgs
    /\ ~flushed_all
    /\ \E o1 \in WriteOutcomes(<<Header>> \o buffer) :
       \E o2 \in WriteOutcomes(<<Header2>> \o buffer_p2) :
          LET d1 == flush(csv, buffer, Header, o1)
              d2 == flush(out_csv, buffer_p2, Header2, o2)
          IN /\ o1.ok \/ buffer # <<>>
             /\ o2.ok \/ buffer_p2 # <<>>
             /\ faults + Failures(d1, d2) <= MaxFaults
             /\ faults' = faults + Failures(d1, d2)
             /\ csv' = d1.file
             /\ buffer' = d1.buffer
             /\ out_csv' = d2.file
             /\ buffer_p2' = d2.buffer
    /\ flushed_all' = TRUE
    /\ UNCHANGED <<added_p1, added_p2, notManagerVars>>

NextManager ==
    \/ add_p1
    \/ add_p2
    \/ flush_all

\* -------------- two invocations of src/vuln_fix_testCompile.py run_vuln_phase
\* Neither the scripts nor save_checkpoint / save_cache take a lock: the
\* steps of the two processes interleave freely on the one checkpoint file.
\* load_checkpoint and the head of run_vuln_phase, in invocation p.
twice_run_vuln_phase_load(p) ==
    /\ prog \in ConcProgs
    /\ procs[p].pc = "load"
    /\ diff # {}
    /\ LET loaded == IF ckpt.exists THEN Parse(ckpt.data)
                     ELSE [ok |-> TRUE, doc |-> EmptyDoc]
       IN procs' = [procs EXCEPT ![p] =
             IF ~loaded.ok THEN [@ EXCEPT !.pc = "crashed"]
             ELSE IF loaded.doc.status = "COMPLETE"
                  THEN [@ EXCEPT !.pc = "done", !.results = loaded.doc.results]
             ELSE [@ EXCEPT !.pc = "test", !.results = GetResults(loaded.doc)]]
    /\ UNCHANGED <<cov, ckpt, saved_by, last_writer, notConcVars>>

\* One iteration of the vuln loop in invocation p.
twice_run_vuln_phase_test(p) ==
    /\ prog \in ConcProgs
    /\ procs[p].pc = "test"
    /\ procs[p].idx <= Len(get_tests(VULN))
    /\ LET t_name == get_tests(VULN)[procs[p].idx]
       IN IF t_name \in DOMAIN procs[p].results
          THEN /\ procs' = [procs EXCEPT ![p].idx = @ + 1]
               /\ UNCHANGED cov
          ELSE \E covered \in (IF cov[<<VULN, t_name>>] = Unknown THEN CovChoices(t_name)
                                ELSE {cov[<<VULN, t_name>>]}) :
               LET relevant == covered \cap diff
               IN /\ cov' = [cov EXCEPT ![<<VULN, t_name>>] = covered]
                  /\ procs' = [procs EXCEPT ![p] =
                        IF relevant # {}
                        THEN [@ EXCEPT !.idx = @ + 1, !.pc = "save_open",
                                       !.results = Put(@, t_name, relevant),
                                       !.saveDoc = StatusDoc("IN_PROGRESS",
                                                             Put(procs[p].results, t_name,
                                                                 relevant))]
                        ELSE [@ EXCEPT !.idx = @ + 1]]
    /\ UNCHANGED <<ckpt, saved_by, last_writer, notConcVars>>

\* The loop of invocation p is over: the COMPLETE checkpoint is saved.
twice_run_vuln_phase_complete(p) ==
    /\ prog \in ConcProgs
    /\ procs[p].pc = "test"
    /\ procs[p].idx > Len(get_tests(VULN))
    /\ procs' = [procs EXCEPT ![p].pc = "save_open",
                              ![p].saveDoc = StatusDoc("COMPLETE", procs[p].results)]
    /\ UNCHANGED <<cov, ckpt, saved_by, last_writer, notConcVars>>

\* save_checkpoint, open(filepath, 'w'): the file is truncated.
twice_save_checkpoint_open(p) ==
    /\ prog \in ConcProgs
    /\ procs[p].pc = "save_open"
    /\ ckpt' = File(<<>>)
    /\ last_writer' = p
    /\ procs' = [procs EXCEPT ![p].pc = "save_write"]
    /\ UNCHANGED <<cov, saved_by, notConcVars>>

\* A save that first reads the file and keeps the entries it finds there.
Dumped_merging(file, doc) ==
    IF file.exists /\ Parse(file.data).ok
    THEN Serialize([doc EXCEPT !.results =
            [t \in DOMAIN doc.results \cup DOMAIN Parse(file.data).doc.results |->
                IF t \in DOMAIN doc.results THEN doc.results[t]
                ELSE Parse(file.data).doc.results[t]]])
    ELSE Serialize(doc)
\* What a save leaves in the file: the document json.dump was given, whatever
\* the file held.
Dumped(file, doc) == Serialize(doc)

\* save_checkpoint, json.dump(data, f, indent=4).
twice_save_checkpoint_write(p) ==
    /\ prog \in ConcProgs
    /\ procs[p].pc = "save_write"
    /\ ckpt' = File(Dumped(ckpt, procs[p].saveDoc))
    /\ last_writer' = p
    /\ saved_by' = [saved_by EXCEPT ![p] = @ \cup DOMAIN procs[p].saveDoc.results]
    /\ procs' = [procs EXCEPT ![p].pc = IF procs[p].saveDoc.status = "COMPLETE"
                                       THEN "done" ELSE "test",
                              ![p].dumped = procs[p].saveDoc]
    /\ UNCHANGED <<cov, notConcVars>>

NextTwice ==
    \/ \E p \in Invocations : twice_run_vuln_phase_load(p)
    \/ \E p \in Invocations : twice_run_vuln_phase_test(p)
    \/ \E p \in Invocations : twice_run_vuln_phase_complete(p)
    \/ \E p \in Invocations : twice_save_checkpoint_open(p)
    \/ \E p \in Invocations : twice_save_checkpoint_write(p)

\* ---------------------------------------------------------- specifications
\* ------------------------------------------ the per-project docker pipelines
\* libraw_pipeline.py (php-src_pipeline.py is the same flow), openjpeg_pipeline.py
\* (radare2_pipeline.py is the same flow) and tensorflow_pipeline.py: for the
\* fix commit, then for the vuln commit, process_commit builds with coverage
\* and runs the suite, the tests to keep are extracted, the tree is rebuilt by
\* prepare_for_energy_measurement and measure_test runs on every kept test.

\* os.path.basename of the .gcda file a covered source file leaves behind.
GcdaName(f) == IF f = "a.c" THEN "a.gcda" ELSE "b.gcda"
\* os.path.splitext(os.path.basename(f))[0]
Stem(f) == IF f \in {"a.c", "a.gcda"} THEN "a" ELSE "b"
\* test['covered_files']: basenames of the .gcda files (libraw, openjpeg),
\* get_covered_files' source paths (tensorflow).
CoveredFiles(covered) ==
    IF prog = "tensorflow" THEN covered ELSE {GcdaName(f) : f \in covered}
\* The build setting a configure with coverage=True / coverage=False writes.
Mode(coverage) == IF coverage THEN "coverage" ELSE "energy"
\* The keys of the dict process_commit returns.
CommitResultKeys == {"hash", "tests"}
\* coverage_results.get('failed', {}).get('status', True)
FailedStatus(keys) == IF "failed" \in keys THEN FALSE ELSE TRUE

\* libraw / php-src extract_test_covering_git_changes: a failed test is not
\* kept; another test is kept when the stems of its covered files meet the
\* stems of the changed files.
extract_libraw(tests, targets) ==
    {[k \in DOMAIN tests |->
        IF tests[k].failed THEN [tests[k] EXCEPT !.keep = "false"]
        ELSE [tests[k] EXCEPT !.keep =
                 IF {Stem(f) : f \in targets} \cap {Stem(f) : f \in tests[k].covered_files} # {}
                 THEN "true" ELSE "false"]]}

\* openjpeg / radare2 / tensorflow extract_test_covering_git_changes: for
\* every target and every test, `continue` when the failed status of the
\* commit's results is true; otherwise every test gets keep = (target in its
\* covered files), the last target of the set iteration winning.
extract_openjpeg(keys, tests, targets) ==
    IF targets = {} \/ tests = <<>> \/ FailedStatus(keys) THEN {tests}
    ELSE {[k \in DOMAIN tests |->
             [tests[k] EXCEPT !.keep =
                 IF last \in tests[k].covered_files THEN "true" ELSE "false"]]
          : last \in targets}

extract_test_covering_git_changes(tests, targets) ==
    IF prog = "libraw" THEN extract_libraw(tests, targets)
    ELSE extract_openjpeg(CommitResultKeys, tests, targets)

\* [t for t in tests if t.get('keep', True) and not t.get('failed', True)]
Kept(tests) ==
    SelectSeq(tests, LAMBDA t : t.keep # "false" /\ ~t.failed)
Names(tests) == [k \in DOMAIN tests |-> tests[k].name]

\* run_phase_1_coverage: clean_repo(PROJECT_DIR)
pipeline_clean ==
    /\ prog \in PipeProgs
    /\ pc = "main"
    /\ CleanRepo("pl_checkout")

\* if not run_command(git checkout -f fix): return None
pipeline_checkout ==
    /\ prog \in PipeProgs
    /\ pc = "pl_checkout"
    /\ Checkout(FIX, "d_checkout", "pl_diff", "exit")

\* git_changed_files = get_git_diff_files(...); if not git_changed_files:
\* return None; then process_commit(fix) begins.
pipeline_diff ==
    /\ prog \in PipeProgs
    /\ pc = "pl_diff"
    /\ target_files' = diff
    /\ IF diff = {}
       THEN /\ pc' = "exit"
            /\ UNCHANGED <<cur, phases>>
       ELSE /\ pc' = "pc_clean"
            /\ cur' = FIX
            /\ phases' = Append(phases, <<"cov", FIX>>)
    /\ UNCHANGED <<inputVars, energyVars, diskVars, cached_data, results, suite, idx, buffer, saveDoc,
                   saveRet, runs, faults, histVars, commit_results, kept_tests, measured,
                   ranTests, abandoned>>

\* process_commit: clean_repo(PROJECT_DIR)
process_commit_clean ==
    /\ prog \in PipeProgs
    /\ pc = "pc_clean"
    /\ CleanRepo("pc_checkout")

\* process_commit: run_command(git checkout -f commit), the result is dropped.
process_commit_checkout ==
    /\ prog \in PipeProgs
    /\ pc = "pc_checkout"
    /\ Checkout(cur, "c_checkout", "pc_configure", "pc_configure")

\* configure_libraw / configure_openjpeg regenerate the build configuration
\* and return the exit status of the configure; configure_tensorflow appends
\* its flags to .bazelrc (open(bazelrc_path, "a")) and returns False only
\* when that write fails.
Configure(coverage, onOk, onFail) ==
    /\ \E ok \in BOOLEAN :
          /\ Fault(ok)
          /\ config' = IF ~ok THEN config
                       ELSE IF prog = "tensorflow" THEN config \cup {Mode(coverage)}
                       ELSE {Mode(coverage)}
          /\ pc' = IF ok THEN onOk ELSE onFail
    /\ UNCHANGED <<inputVars, energy_file, out_csv, energyVars, tree, ckpt, csv, procVars, runs, histVars, pipeVars>>

\* if not configure_*(PROJECT_DIR, coverage=coverage): return None
process_commit_configure ==
    /\ prog \in PipeProgs
    /\ pc = "pc_configure"
    /\ Configure(TRUE, "pc_build", "exit")

\* if not build_*(PROJECT_DIR): return None
process_commit_build ==
    /\ prog \in PipeProgs
    /\ pc = "pc_build"
    /\ Build("c_build", "pc_suite", "exit")

\* suite = get_*_tests(PROJECT_DIR)
process_commit_suite ==
    /\ prog \in PipeProgs
    /\ pc = "pc_suite"
    /\ Suite("pc_test")

\* One iteration of the suite loop of process_commit: a test command that
\* exits non-zero marks the test failed and `continue`s before the coverage
\* is collected; otherwise covered_files is read from the .gcda files.
process_commit_test ==
    /\ prog \in PipeProgs
    /\ pc = "pc_test"
    /\ idx <= Len(suite)
    /\ LET t_name == suite[idx] IN
       \E exit_ok \in BOOLEAN :
          IF exit_ok
          THEN \E covered \in Outcomes(t_name) :
                  /\ cov' = Learn(t_name, covered)
                  /\ commit_results' = Append(commit_results,
                         [name |-> t_name, failed |-> FALSE,
                          covered_files |-> CoveredFiles(covered), keep |-> "unset"])
                  /\ ranTests' = ranTests \cup
                         {[commit |-> cur, test |-> t_name, exit_ok |-> TRUE,
                           collected |-> TRUE]}
          ELSE /\ cov' = cov
               /\ commit_results' = Append(commit_results,
                      [name |-> t_name, failed |-> TRUE, covered_files |-> {},
                       keep |-> "unset"])
               /\ ranTests' = ranTests \cup
                      {[commit |-> cur, test |-> t_name, exit_ok |-> FALSE,
                        collected |-> FALSE]}
    /\ idx' = idx + 1
    /\ Did("c_test")
    /\ UNCHANGED <<unitVars, prog, diff, energyVars, diskVars, pc, cached_data, results, target_files, suite,
                   buffer, saveDoc, saveRet, runs, faults, ranV, doneV, startCkpt, fixDone,
                   saveFailed, emitted, gitFailed, buildFailed, cur, kept_tests, measured,
                   phases, abandoned>>

\* The suite loop is over and process_commit returns. run_phase_1_coverage
\* returns None when every test failed (all() of an empty suite is True);
\* otherwise it extracts the tests covering the changes, builds kept_tests
\* and calls prepare_for_energy_measurement.
process_commit_return ==
    /\ prog \in PipeProgs
    /\ pc = "pc_test"
    /\ idx > Len(suite)
    /\ IF \A k \in DOMAIN commit_results : commit_results[k].failed
       THEN /\ pc' = "exit"
            /\ abandoned' = "no successful tests"
            /\ phases' = Append(phases, <<"cov_done", cur>>)
            /\ UNCHANGED <<commit_results, kept_tests>>
       ELSE \E extracted \in extract_test_covering_git_changes(commit_results, target_files) :
               /\ commit_results' = extracted
               /\ kept_tests' = Names(Kept(extracted))
               /\ phases' = Append(Append(phases, <<"cov_done", cur>>), <<"energy", cur>>)
               /\ pc' = "prep_clean"
               /\ UNCHANGED abandoned
    /\ UNCHANGED <<inputVars, energyVars, diskVars, procVars, runs, faults, histVars, cur, measured,
                   ranTests>>

\* run_command("rm -rf cmake_build"): the configuration and the binaries of
\* the coverage build are gone when it succeeds; the result is dropped.
RemoveBuildDir(next) ==
    /\ \E ok \in BOOLEAN :
          /\ Fault(ok)
          /\ tree' = IF ok THEN [tree EXCEPT !.built = NONE] ELSE tree
          /\ config' = IF ok THEN {} ELSE config
    /\ pc' = next
    /\ UNCHANGED <<inputVars, energy_file, out_csv, energyVars, ckpt, csv, procVars, runs, histVars, pipeVars>>

\* The tensorflow pipeline goes from the coverage run straight to the
\* configure for energy.
NoClean(next) ==
    /\ pc' = next
    /\ UNCHANGED <<inputVars, energyVars, diskVars, procVars, runs, faults, histVars, pipeVars>>

\* prepare_for_energy_measurement, first step: clean_repo (libraw), rm -rf
\* cmake_build (openjpeg), make clean (radare2), nothing (php-src, tensorflow).
prepare_for_energy_measurement_clean ==
    /\ prog \in PipeProgs
    /\ pc = "prep_clean"
    /\ \/ prog = "libraw" /\ CleanRepo("prep_configure")
       \/ prog = "openjpeg" /\ RemoveBuildDir("prep_configure")
       \/ prog = "tensorflow" /\ NoClean("prep_configure")

\* configure_*(PROJECT_DIR, coverage=False): the result is dropped.
prepare_for_energy_measurement_configure ==
    /\ prog \in PipeProgs
    /\ pc = "prep_configure"
    /\ Configure(FALSE, "prep_build", "prep_build")

\* build_*(PROJECT_DIR): the result is dropped.
prepare_for_energy_measurement_build ==
    /\ prog \in PipeProgs
    /\ pc = "prep_build"
    /\ idx' = 1
    /\ \E ok \in BOOLEAN :
          /\ Fault(ok)
          /\ tree' = IF ok THEN [tree EXCEPT !.built = tree.head] ELSE tree
          /\ buildFailed' = IF ok THEN buildFailed ELSE buildFailed \cup {"e_build"}
    /\ pc' = "pl_measure"
    /\ Did("e_build")
    /\ UNCHANGED <<inputVars, energy_file, out_csv, energyVars, ckpt, csv, config, cached_data, results, target_files, suite,
                   buffer, saveDoc, saveRet, runs, ranV, doneV, startCkpt, fixDone,
                   saveFailed, emitted, gitFailed, pipeVars>>

\* measure_test(rapl_pkg, test, commit) for the next kept test: perf stat runs
\* the test command on whatever the working tree holds.
measure_test ==
    /\ prog \in PipeProgs
    /\ pc = "pl_measure"
    /\ idx <= Len(kept_tests)
    /\ measured' = measured \cup
          {[commit |-> cur, test |-> kept_tests[idx], config |-> config,
            built |-> tree.built]}
    /\ idx' = idx + 1
    /\ Did("e_test")
    /\ UNCHANGED <<inputVars, energyVars, diskVars, pc, cached_data, results, target_files, suite,
                   buffer, saveDoc, saveRet, runs, faults, ranV, doneV, startCkpt, fixDone,
                   saveFailed, emitted, gitFailed, buildFailed, cur, commit_results,
                   kept_tests, phases, ranTests, abandoned>>

\* The measuring loop is over: after the fix commit process_commit(vuln)
\* begins; after the vuln commit run_phase_1_coverage returns its results.
measure_done ==
    /\ prog \in PipeProgs
    /\ pc = "pl_measure"
    /\ idx > Len(kept_tests)
    /\ IF cur = FIX
       THEN /\ cur' = VULN
            /\ commit_results' = <<>>
            /\ phases' = Append(phases, <<"cov", VULN>>)
            /\ pc' = "pc_clean"
       ELSE /\ pc' = "exit"
            /\ UNCHANGED <<cur, commit_results, phases>>
    /\ UNCHANGED <<inputVars, energyVars, diskVars, procVars, runs, faults, histVars, kept_tests,
                   measured, ranTests, abandoned>>

NextPipe ==
    \/ Start
    \/ Kill
    \/ pipeline_clean
    \/ pipeline_checkout
    \/ pipeline_diff
    \/ process_commit_clean
    \/ process_commit_checkout
    \/ process_commit_configure
    \/ process_commit_build
    \/ process_commit_suite
    \/ process_commit_test
    \/ process_commit_return
    \/ prepare_for_energy_measurement_clean
    \/ prepare_for_energy_measurement_configure
    \/ prepare_for_energy_measurement_build
    \/ measure_test
    \/ measure_done

\* ------------------------------------------------------- the energy phase
\* "phase2"   : src/docker/vfec_init.py run_phase_2, entered by main after
\*              run_phase_1 returned True (here: Phase 1 is COMPLETE_P1)
\* "profiler" : src/profiler.py main
\* Both read the Phase-1 CSV, measure every (commit, test) that is not in
\* the energy cache, store each value in the cache file and write the
\* energy CSV.

\* What perf reports for one measurement, in units of 0.00001 J per run.
EnergyValues == {24}
\* measure_energy / measure_single_test: None, or the value.
MeasureResults ==
    {[ok |-> FALSE, val |-> 0]} \cup {[ok |-> TRUE, val |-> v] : v \in EnergyValues}

\* The row write_csv_from_cache writes: "0" unless the test is in the cache
\* (of the metric columns the model keeps energy_pkg).
ProfilerRow(row, cache) ==
    <<row[1], row[2], row[3],
      IF row[3] # "" /\ <<row[2], row[3]>> \in DOMAIN cache
      THEN Fmt4(cache[<<row[2], row[3]>>]) ELSE "0",
      row[4], row[5], row[6],
      IF row[5] # "" /\ <<row[4], row[5]>> \in DOMAIN cache
      THEN Fmt4(cache[<<row[4], row[5]>>]) ELSE "0">>

\* relevant_tests / tasks: the tests the Phase-1 rows name for a commit.
RelevantTests(rs, c) ==
    IF c = VULN THEN {rs[k][3] : k \in DOMAIN rs} \ {""}
    ELSE {rs[k][5] : k \in DOMAIN rs} \ {""}
\* The order the commits are worked on: vuln then fix in run_phase_2; the
\* insertion order of the tasks dict in the profiler.
TaskOrder(rs) ==
    LET vs == {k \in DOMAIN rs : rs[k][3] # ""}
        fs == {k \in DOMAIN rs : rs[k][5] # ""}
    IN  IF prog = "phase2" THEN <<VULN, FIX>>
        ELSE IF vs = {} THEN (IF fs = {} THEN <<>> ELSE <<FIX>>)
        ELSE IF fs = {} THEN <<VULN>>
        ELSE IF \E v \in vs : \A f \in fs : v <= f THEN <<VULN, FIX>>
        ELSE <<FIX, VULN>>
FirstCommit(rs) == IF TaskOrder(rs) = <<>> THEN NONE ELSE TaskOrder(rs)[1]
NextCommit(rs, c) ==
    IF Len(TaskOrder(rs)) = 2 /\ TaskOrder(rs)[1] = c THEN TaskOrder(rs)[2] ELSE NONE

\* todos = [t for t in tests if t not in cache[commit]]
Todos_all(tests, c, cache) == SetToSeq(tests)
Todos(tests, c, cache) == SetToSeq({t \in tests : <<c, t>> \notin DOMAIN cache})

\* if pkg_energy is not None: cache[commit][t_name] = pkg_energy
StoreResult_always(cache, key, res) == Put(cache, key, res.val)
StoreResult(cache, key, res) == IF res.ok THEN Put(cache, key, res.val) ELSE cache

EnergyOp(step, c) == (IF c = VULN THEN "ev_" ELSE "ef_") \o step

\* run_phase_2 keeps the rows whose vuln_commit and fix_commit are the
\* current pair's.
RECURSIVE OfCurrentPair(_)
OfCurrentPair(rows) ==
    IF rows = <<>> THEN <<>>
    ELSE (IF Head(rows)[2] = VULN /\ Head(rows)[4] = FIX THEN <<Head(rows)>> ELSE <<>>)
         \o OfCurrentPair(Tail(rows))

\* The read of the Phase-1 CSV that keeps the rows of every pair.
EnergyRead_every_row ==
    /\ pc = "main"
    /\ rows_to_process' = IF csv.exists THEN Tail(csv.data) ELSE <<>>
    /\ pc' = IF rows_to_process' = <<>> THEN "exit" ELSE "e_load"
    /\ UNCHANGED <<inputVars, diskVars, procVars, runs, faults, histVars, pipeVars,
                   energy_cache, todos, attempts, failed, loadedCache, failedBefore>>
    /\ UNCHANGED measureVars

\* The rows of the Phase-1 CSV are read; run_phase_2 returns True when there
\* are none.
EnergyRead ==
    /\ pc = "main"
    /\ rows_to_process' = IF ~csv.exists THEN <<>>
                          ELSE IF prog = "phase2" THEN OfCurrentPair(Tail(csv.data))
                          ELSE Tail(csv.data)
    /\ pc' = IF rows_to_process' = <<>> THEN "exit" ELSE "e_load"
    /\ UNCHANGED <<inputVars, diskVars, procVars, runs, faults, histVars, pipeVars,
                   energy_cache, todos, attempts, failed, loadedCache, failedBefore>>
    /\ UNCHANGED measureVars

\* cache = load_cache(path): {} for a missing or unreadable file;
\* load_checkpoint has no try and the run ends in json.load's exception.
EnergyLoad(raises) ==
    /\ pc = "e_load"
    /\ IF raises /\ energy_file.exists /\ ~energy_file.whole
       THEN /\ pc' = "crashed"
            /\ UNCHANGED <<energy_cache, loadedCache, cur>>
       ELSE /\ energy_cache' = IF energy_file.exists /\ energy_file.whole
                               THEN energy_file.data ELSE EmptyCache
            /\ loadedCache' = energy_cache'
            /\ cur' = FirstCommit(rows_to_process)
            /\ pc' = IF cur' = NONE THEN "e_rows" ELSE "e_commit"
    /\ UNCHANGED <<inputVars, diskVars, procVars, runs, faults, histVars, commit_results,
                   kept_tests, measured, phases, ranTests, abandoned, todos,
                   rows_to_process, attempts, failed, failedBefore>>
    /\ UNCHANGED measureVars

\* todos for the commit; if not todos: continue.
EnergyCommit ==
    /\ pc = "e_commit"
    /\ todos' = Todos(RelevantTests(rows_to_process, cur), cur, energy_cache)
    /\ idx' = 1
    /\ pc' = IF todos' = <<>> THEN "e_next" ELSE "e_clean"
    /\ UNCHANGED <<inputVars, diskVars, cached_data, results, target_files, suite, buffer,
                   saveDoc, saveRet, runs, faults, histVars, pipeVars, energy_cache,
                   rows_to_process, attempts, failed, loadedCache, failedBefore>>
    /\ UNCHANGED measureVars

\* The loop over the commits goes to its next iteration, or ends.
EnergyNext ==
    /\ pc = "e_next"
    /\ cur' = NextCommit(rows_to_process, cur)
    /\ pc' = IF cur' = NONE THEN "e_rows" ELSE "e_commit"
    /\ UNCHANGED <<inputVars, diskVars, procVars, runs, faults, histVars, commit_results,
                   kept_tests, measured, phases, ranTests, abandoned, energyVars>>

\* One measurement of the todo loop. A value is put in the cache and the
\* cache is saved; None changes nothing and the loop goes on.
EnergyMeasure ==
    /\ pc = "e_measure"
    /\ idx <= Len(todos)
    /\ \E res \in MeasureResults :
          /\ Fault(res.ok)
          /\ energy_cache' = StoreResult(energy_cache, <<cur, todos[idx]>>, res)
          /\ failed' = IF res.ok THEN failed ELSE failed \cup {<<cur, todos[idx]>>}
          /\ pc' = IF res.ok THEN "e_save_open" ELSE "e_measure"
    /\ attempts' = attempts \cup {<<cur, todos[idx]>>}
    /\ idx' = idx + 1
    /\ Did(EnergyOp("test", cur))
    /\ UNCHANGED <<inputVars, diskVars, cached_data, results, target_files, suite, buffer,
                   saveDoc, saveRet, runs, ranV, doneV, startCkpt, fixDone, saveFailed,
                   emitted, gitFailed, buildFailed, pipeVars, todos, rows_to_process,
                   loadedCache, failedBefore>>
    /\ UNCHANGED measureVars

\* The todo loop of the commit has run to its end.
EnergyMeasureDone ==
    /\ pc = "e_measure"
    /\ idx > Len(todos)
    /\ pc' = "e_next"
    /\ Did(EnergyOp("done", cur))
    /\ UNCHANGED <<inputVars, diskVars, procVars, runs, faults, ranV, doneV, startCkpt,
                   fixDone, saveFailed, emitted, gitFailed, buildFailed, pipeVars,
                   energyVars>>

\* with open(path, 'w') as f: the cache file is truncated.
EnergySaveOpen(onFail) ==
    /\ pc = "e_save_open"
    /\ \E ok \in BOOLEAN :
          /\ Fault(ok)
          /\ energy_file' = IF ok THEN TruncatedEnergyFile ELSE energy_file
          /\ pc' = IF ok THEN "e_save_write" ELSE onFail
    /\ UNCHANGED <<inputVars, tree, ckpt, csv, config, out_csv, procVars, runs, histVars,
                   pipeVars, energyVars>>

\* json.dump(data, f, indent=4): the whole cache, or a document cut short.
EnergySaveWrite(onFail) ==
    /\ pc = "e_save_write"
    /\ \E ok \in BOOLEAN :
          /\ Fault(ok)
          /\ energy_file' = IF ok THEN EnergyFile(energy_cache) ELSE TruncatedEnergyFile
          /\ pc' = IF ok THEN "e_measure" ELSE onFail
    /\ UNCHANGED <<inputVars, tree, ckpt, csv, config, out_csv, procVars, runs, histVars,
                   pipeVars, energyVars>>

\* CSVManager.flush of the Phase-2 rows: appended, after the header when the
\* file is new; a failing write is logged.
FlushedP2(file, lines, ok) ==
    IF lines = <<>> \/ ~ok THEN file
    ELSE File((IF file.exists THEN file.data ELSE <<Header2>>) \o lines)

\* write_csv_from_cache: open(OUTPUT_CSV_PATH, 'w'), the header and one row
\* per input row; a failing open is logged and leaves the file as it was.
WrittenFromCache(file, lines, ok) == IF ok THEN File(<<Header2>> \o lines) ELSE file

\* vfec_init.py run_phase_2
run_phase_2_read ==
    /\ prog = "phase2"
    /\ EnergyRead

run_phase_2_load ==
    /\ prog = "phase2"
    /\ EnergyLoad(FALSE)

run_phase_2_commit ==
    /\ prog = "phase2"
    /\ EnergyCommit

run_phase_2_clean ==
    /\ prog = "phase2"
    /\ pc = "e_clean"
    /\ CleanRepo("e_checkout")

\* vfec_output.run_command(git checkout -f commit): the result is dropped.
run_phase_2_checkout ==
    /\ prog = "phase2"
    /\ pc = "e_checkout"
    /\ Checkout(cur, EnergyOp("checkout", cur), "e_build", "e_build")

\* project_engine.build_energy(PROJECT_DIR): the result is dropped.
run_phase_2_build ==
    /\ prog = "phase2"
    /\ pc = "e_build"
    /\ Build(EnergyOp("build", cur), "e_measure", "e_measure")

run_phase_2_measure ==
    /\ prog = "phase2"
    /\ EnergyMeasure

run_phase_2_measure_done ==
    /\ prog = "phase2"
    /\ EnergyMeasureDone

\* save_cache has no try: a failure ends the process with a traceback.
run_phase_2_save_open ==
    /\ prog = "phase2"
    /\ EnergySaveOpen("crashed")

run_phase_2_save_write ==
    /\ prog = "phase2"
    /\ EnergySaveWrite("crashed")

run_phase_2_next ==
    /\ prog = "phase2"
    /\ EnergyNext

\* add_p2 for every row (fewer rows than the write interval), flush_all.
run_phase_2_rows ==
    /\ prog = "phase2"
    /\ pc = "e_rows"
    /\ \E ok \in BOOLEAN :
          /\ Fault(ok)
          /\ out_csv' = FlushedP2(out_csv,
                 [k \in DOMAIN rows_to_process |-> P2Row(rows_to_process[k], energy_cache)],
                 ok)
    /\ pc' = "exit"
    /\ UNCHANGED <<inputVars, tree, ckpt, csv, config, energy_file, procVars, runs,
                   histVars, pipeVars, energyVars>>

\* profiler.py main
profiler_read ==
    /\ prog = "profiler"
    /\ EnergyRead

profiler_load ==
    /\ prog = "profiler"
    /\ EnergyLoad(TRUE)

profiler_commit ==
    /\ prog = "profiler"
    /\ EnergyCommit

\* clean_and_checkout: git reset --hard, git clean -fdx
clean_and_checkout_clean ==
    /\ prog = "profiler"
    /\ pc = "e_clean"
    /\ CleanRepo("e_checkout")

\* if not run_command(git checkout -f commit_hash): return False
clean_and_checkout_checkout ==
    /\ prog = "profiler"
    /\ pc = "e_checkout"
    /\ Checkout(cur, EnergyOp("checkout", cur), "e_build", "e_next")

\* configure (result dropped); if not run_command(make): return False
clean_and_checkout_build ==
    /\ prog = "profiler"
    /\ pc = "e_build"
    /\ Build(EnergyOp("build", cur), "e_measure", "e_next")

\* Fewer tests are measured than CSV_WRITE_INTERVAL, so the periodic
\* write_csv_from_cache inside the loop is not reached.
profiler_measure ==
    /\ prog = "profiler"
    /\ EnergyMeasure

profiler_measure_done ==
    /\ prog = "profiler"
    /\ EnergyMeasureDone

\* save_checkpoint logs and swallows a failure.
save_checkpoint_energy_open ==
    /\ prog = "profiler"
    /\ EnergySaveOpen("e_measure")

save_checkpoint_energy_write ==
    /\ prog = "profiler"
    /\ EnergySaveWrite("e_measure")

profiler_next ==
    /\ prog = "profiler"
    /\ EnergyNext

\* write_csv_from_cache(rows, results_cache) at the end of main.
write_csv_from_cache ==
    /\ prog = "profiler"
    /\ pc = "e_rows"
    /\ \E ok \in BOOLEAN :
          /\ Fault(ok)
          /\ out_csv' = WrittenFromCache(out_csv,
                 [k \in DOMAIN rows_to_process |->
                     ProfilerRow(rows_to_process[k], energy_cache)],
                 ok)
    /\ pc' = "exit"
    /\ UNCHANGED <<inputVars, tree, ckpt, csv, config, energy_file, procVars, runs,
                   histVars, pipeVars, energyVars>>

\* ------------------------------------------------ the coverage collectors
\* str.endswith / str.startswith on pieces.
EndsWith(s, piece) == Len(s) > 0 /\ s[Len(s)] = piece
StartsWith(s, p) == Len(s) >= Len(p) /\ SubSeq(s, 1, Len(p)) = p
\* s.split("_la-")[-1]: what follows the last "_la-".
AfterLastLa(s) ==
    LET at == {k \in DOMAIN s : s[k] = "_la-"}
        last == CHOOSE k \in at : \A j \in at : j <= k
    IN  IF at = {} THEN s ELSE SubSeq(s, last + 1, Len(s))
\* s.replace(".gcda", ".c"): every occurrence.
ReplaceGcda(s) == [k \in DOMAIN s |-> IF s[k] = ".gcda" THEN ".c" ELSE s[k]]

\* vuln_fix_testCompile.get_covered_files on one file of os.walk: the
\* extension is cut off, a libtool name keeps what follows its last "_la-",
\* and a file in .libs is placed in the directory above.
vft_source(dir, file) ==
    LET name_without_ext == SubSeq(file, 1, Len(file) - 1)
        real_name == AfterLastLa(name_without_ext)
        rel_dir == IF EndsWith(dir, ".libs") THEN SubSeq(dir, 1, Len(dir) - 1) ELSE dir
    IN  [dir |-> rel_dir, file |-> real_name \o <<".c">>]

\* curl_fix_testcov.normalize_gcda_name on the basename: the first of
\* curl's three prefixes that the name starts with is stripped.
prefixes == << <<"curl-">>, <<"libcurl", "_la-">>, <<"libcurltool", "_la-">> >>
normalize_gcda_name(file) ==
    LET name == IF EndsWith(file, ".gcda") THEN SubSeq(file, 1, Len(file) - 1) ELSE file
        hits == {k \in DOMAIN prefixes : StartsWith(name, prefixes[k])}
        first == CHOOSE k \in hits : \A j \in hits : k <= j
        stripped == IF hits = {} THEN name
                    ELSE SubSeq(name, Len(prefixes[first]) + 1, Len(name))
    IN  [dir |-> <<>>, file |-> stripped \o <<".c">>]

\* vfec_output.get_covered_files on one file of os.walk: the extension is
\* replaced, the directory kept.
vfec_output_source(dir, file) == [dir |-> dir, file |-> ReplaceGcda(file)]

Resolved(p, g) ==
    CASE p = "vft_cov" -> vft_source(g.dir, g.file)
      [] p = "curl_cov" -> normalize_gcda_name(g.file)
      [] OTHER -> vfec_output_source(g.dir, g.file)

\* One .gcda file is resolved by the collector (if file.endswith(".gcda")).
get_covered_files ==
    /\ prog \in NameProgs
    /\ pc = "idle"
    /\ EndsWith(gcda.file, ".gcda")
    /\ source_name' = Resolved(prog, gcda)
    /\ pc' = "exit"
    /\ UNCHANGED <<gcda, notNameVars>>

NextNames ==
    \/ get_covered_files

\* ---------------------------------------------------- the test enumerators
\* Enumerations of one tree.
MaxEnums == 2
\* The file has the extension / prefix the strategy looks for.
IsTestFile(f) == f \in Tests
qemu_targets == <<"check-unit", "check-qtest", "check-block">>

\* The list the strategy iterates: os.listdir and glob.glob return the
\* entries in arbitrary order; sorted(os.listdir(...)) in sorted order; the
\* lines of TESTLIST and of `make fate-list` in the order of the text; qemu's
\* targets are a literal.
Listings(strategy, dir) ==
    CASE strategy \in {"openssl_legacy", "imagemagick", "tcpdump_pcap", "gpac"} ->
            Perms(dir.files)
      [] strategy = "openssl" -> {SetToSeq(dir.files)}
      [] strategy \in {"ffmpeg", "tcpdump"} -> {dir.listed}
      [] OTHER -> {qemu_targets}

\* if TEST_LIMIT: tests = tests[:TEST_LIMIT]
Limited(tests, limit) ==
    IF limit # 0 /\ Len(tests) > limit THEN SubSeq(tests, 1, limit) ELSE tests

\* The suite one enumeration returns for one listing.
SuiteOf(strategy, listing, limit) ==
    IF strategy = "qemu" THEN Limited(listing, limit)
    ELSE Limited(SelectSeq(listing, IsTestFile), limit)

\* get_test_suite / get_tcpdump_tests / get_gpac_tests on the tree.
get_test_suite ==
    /\ prog \in EnumProgs
    /\ Len(enumerations) < MaxEnums
    /\ \E listing \in Listings(prog, tests_dir) :
          enumerations' = Append(enumerations, SuiteOf(prog, listing, TEST_LIMIT))
    /\ UNCHANGED <<pc, tests_dir, TEST_LIMIT, notEnumVars>>

NextEnum ==
    \/ get_test_suite

\* ------------------------------------------------- the measure functions
Ceil(a, b) == (a + b - 1) \div b
Max(a, b) == IF a > b THEN a ELSE b

\* TARGET_DURATION_SEC / TARGET_DURATION of each script.
TargetDuration(p) ==
    IF p \in {"profiler_measure", "curl_calibrate"} THEN 3 * Second ELSE 2 * Second

\* The loop count each script computes from the duration of the single run.
\*   profiler:    if duration < 0.001: duration = 0.001; math.ceil(TARGET / duration)
\*   openssl, vfec_output:  duration = max(..., 0.001);  math.ceil(TARGET / duration)
\*   curl:        if duration <= 0: duration = 0.001; int(TARGET / duration), at least 1
Loops(p, duration) ==
    IF p = "curl_calibrate"
    THEN LET d == IF duration <= 0 THEN Second \div 1000 ELSE duration
             n == TargetDuration(p) \div d
         IN  IF n < 1 THEN 1 ELSE n
    ELSE Ceil(TargetDuration(p), Max(duration, Second \div 1000))

NoCounts == [energy_pkg |-> 0, energy_core |-> 0, cycles |-> 0, instructions |-> 0]

\* The parse loop of profiler.measure_single_test: lines with fewer than 3
\* fields, "<not supported>", "" and unparseable values are skipped; cycles
\* and instructions are summed.
RECURSIVE ParseProfiler(_, _, _)
ParseProfiler(lines, i, m) ==
    IF i > Len(lines) THEN m
    ELSE LET l == lines[i]
             skip == l.parts < 3 \/ l.val = "<not supported>" \/ l.val = "" \/ ~IsFloat(l.val)
             val == Float(l.val)
             m2 == IF skip THEN m
                   ELSE IF Has(l.event, "energy-pkg") THEN [m EXCEPT !.energy_pkg = val]
                   ELSE IF Has(l.event, "energy-cores") THEN [m EXCEPT !.energy_core = val]
                   ELSE IF Has(l.event, "cycles") THEN [m EXCEPT !.cycles = @ + val]
                   ELSE IF Has(l.event, "instructions") THEN [m EXCEPT !.instructions = @ + val]
                   ELSE m
         IN  ParseProfiler(lines, i + 1, m2)

\* The parse loop of openssl_pipeline.measure_test: the last value of each
\* event wins.
RECURSIVE ParseOpenssl(_, _, _)
ParseOpenssl(lines, i, m) ==
    IF i > Len(lines) THEN m
    ELSE LET l == lines[i]
             skip == l.parts < 3 \/ ~IsFloat(l.val)
             val == Float(l.val)
             m2 == IF skip THEN m
                   ELSE IF Has(l.event, "energy-pkg") THEN [m EXCEPT !.energy_pkg = val]
                   ELSE IF Has(l.event, "energy-cores") THEN [m EXCEPT !.energy_core = val]
                   ELSE IF Has(l.event, "cycles") THEN [m EXCEPT !.cycles = val]
                   ELSE IF Has(l.event, "instructions") THEN [m EXCEPT !.instructions = val]
                   ELSE m
         IN  ParseOpenssl(lines, i + 1, m2)

\* The parse loop of vfec_output.measure_energy: the index of the first line
\* that gives energy-pkg a value, 0 when there is none (energy_pkg stays None).
RECURSIVE FirstPkgLine(_, _)
FirstPkgLine(lines, i) ==
    IF i > Len(lines) THEN 0
    ELSE LET l == lines[i]
         IN  IF l.parts >= 3 /\ IsFloat(l.val) /\ Has(l.event, "energy-pkg")
             THEN i
             ELSE FirstPkgLine(lines, i + 1)

\* What each measure function returns once perf has run n loops.
measure_single_test(in, n) ==
    IF in.returncode # 0 THEN None
    ELSE LET m == ParseProfiler(in.lines, 1, NoCounts)
         IN  IF n > 0
             THEN Metrics(Ratio(m.energy_pkg, n), Ratio(m.energy_core, n), Ratio(m.cycles, n),
                          IF m.cycles > 0 THEN Ratio(m.instructions, m.cycles) ELSE Zero)
             ELSE None

openssl_measure_test(in, n) ==
    IF in.returncode # 0 THEN None
    ELSE LET m == ParseOpenssl(in.lines, 1, NoCounts)
         IN  IF n > 0
             THEN Metrics(Ratio(m.energy_pkg, n), Ratio(m.energy_core, n), Ratio(m.cycles, n),
                          Ratio(m.instructions, n))
             ELSE None

measure_energy(in, n) ==
    LET k == FirstPkgLine(in.lines, 1)
    IN  IF k = 0 THEN None
        ELSE IF n > 0 THEN Metrics(Ratio(Float(in.lines[k].val), n), Zero, Zero, Zero)
        ELSE None

Measured(p, in, n) ==
    CASE p = "profiler_measure" -> measure_single_test(in, n)
      [] p = "openssl_measure" -> openssl_measure_test(in, n)
      [] OTHER -> measure_energy(in, n)

\* The single run before perf. profiler and openssl return None when it
\* fails; vfec_output only logs a warning; curl runs it with can_fail=True.
measure_prerun ==
    /\ prog \in MeasureProgs
    /\ pc = "idle"
    /\ IF ~perf_in.pre_ok /\ prog \in {"profiler_measure", "openssl_measure"}
       THEN /\ metrics' = None
            /\ pc' = "m_return"
       ELSE /\ metrics' = metrics
            /\ pc' = "m_calibrate"
    /\ UNCHANGED <<inputVars, diskVars, procVars, runs, faults, histVars, pipeVars,
                   energy_cache, todos, rows_to_process, attempts, failed, loadedCache,
                   failedBefore, perf_in, iterations, stored>>

\* iterations = ... / n_loops = ...
measure_calibrate ==
    /\ pc = "m_calibrate"
    /\ iterations' = Loops(prog, perf_in.duration)
    /\ pc' = IF prog = "curl_calibrate" THEN "exit" ELSE "m_perf"
    /\ UNCHANGED <<inputVars, diskVars, procVars, runs, faults, histVars, pipeVars,
                   energy_cache, todos, rows_to_process, attempts, failed, loadedCache,
                   failedBefore, perf_in, metrics, stored>>

\* perf stat runs the loop; its output is parsed and the result returned.
measure_perf ==
    /\ pc = "m_perf"
    /\ metrics' = Measured(prog, perf_in, iterations)
    /\ pc' = "m_return"
    /\ UNCHANGED <<inputVars, diskVars, procVars, runs, faults, histVars, pipeVars,
                   energy_cache, todos, rows_to_process, attempts, failed, loadedCache,
                   failedBefore, perf_in, iterations, stored>>

\* The caller: `if metrics:` (profiler.main, openssl run_phase_2_energy) and
\* `if pkg_energy is not None:` (vfec_init.run_phase_2) store the result.
measure_return ==
    /\ pc = "m_return"
    /\ stored' = IF metrics.ok THEN {metrics} ELSE stored
    /\ pc' = "exit"
    /\ UNCHANGED <<inputVars, diskVars, procVars, runs, faults, histVars, pipeVars,
                   energy_cache, todos, rows_to_process, attempts, failed, loadedCache,
                   failedBefore, perf_in, iterations, metrics>>

NextMeasure ==
    \/ measure_prerun
    \/ measure_calibrate
    \/ measure_perf
    \/ measure_return

NextEnergy ==
    \/ Start
    \/ Kill
    \/ run_phase_2_read
    \/ run_phase_2_load
    \/ run_phase_2_commit
    \/ run_phase_2_clean
    \/ run_phase_2_checkout
    \/ run_phase_2_build
    \/ run_phase_2_measure
    \/ run_phase_2_measure_done
    \/ run_phase_2_save_open
    \/ run_phase_2_save_write
    \/ run_phase_2_next
    \/ run_phase_2_rows
    \/ profiler_read
    \/ profiler_load
    \/ profiler_commit
    \/ clean_and_checkout_clean
    \/ clean_and_checkout_checkout
    \/ clean_and_checkout_build
    \/ profiler_measure
    \/ profiler_measure_done
    \/ save_checkpoint_energy_open
    \/ save_checkpoint_energy_write
    \/ profiler_next
    \/ write_csv_from_cache

NextVft ==
    \/ Start
    \/ Kill
    \/ main
    \/ run_vuln_phase_load
    \/ run_vuln_phase_clean
    \/ run_vuln_phase_checkout
    \/ run_vuln_phase_build
    \/ run_vuln_phase_suite
    \/ run_vuln_phase_test
    \/ run_vuln_phase_complete
    \/ save_checkpoint_open
    \/ save_checkpoint_write
    \/ run_fix_phase_clean
    \/ run_fix_phase_checkout
    \/ run_fix_phase_build
    \/ run_fix_phase_open
    \/ run_fix_phase_test
    \/ run_fix_phase_rest

NextInit ==
    \/ Start
    \/ Kill
    \/ run_phase_1_load
    \/ run_phase_1_clean
    \/ run_phase_1_checkout
    \/ run_phase_1_diff
    \/ run_phase_1_vuln_clean
    \/ run_phase_1_vuln_checkout
    \/ run_phase_1_vuln_build
    \/ run_phase_1_vuln_suite
    \/ run_phase_1_vuln_test
    \/ run_phase_1_vuln_complete
    \/ save_cache_open
    \/ save_cache_write
    \/ run_phase_1_fix_clean
    \/ run_phase_1_fix_checkout
    \/ run_phase_1_fix_build
    \/ run_phase_1_fix_suite
    \/ run_phase_1_fix_test
    \/ run_phase_1_flush
    \/ run_phase_1_done

NextGpac ==
    \/ Start
    \/ Kill
    \/ run_phase_1_coverage_skip
    \/ run_phase_1_coverage_clean
    \/ run_phase_1_coverage_checkout
    \/ run_phase_1_coverage_load
    \/ run_phase_1_coverage_vuln_clean
    \/ run_phase_1_coverage_vuln_checkout
    \/ run_phase_1_coverage_vuln_build
    \/ run_phase_1_coverage_vuln_suite
    \/ run_phase_1_coverage_vuln_test
    \/ run_phase_1_coverage_vuln_complete
    \/ save_json_open
    \/ save_json_write
    \/ run_phase_1_coverage_fix_clean
    \/ run_phase_1_coverage_fix_checkout
    \/ run_phase_1_coverage_fix_build
    \/ run_phase_1_coverage_fix_suite
    \/ run_phase_1_coverage_fix_test
    \/ run_phase_1_coverage_flush

InitVft == prog = "vft" /\ Init
InitInit == prog = "init" /\ Init
InitGpac == prog = "gpac" /\ Init
InitPipe == prog \in PipeProgs /\ Init
InitEnergy == prog \in EnergyProgs /\ diff = {"a.c"} /\ Init
InitMeasure == prog \in MeasureProgs /\ diff = {"a.c"} /\ Init
InitNames == prog \in NameProgs /\ diff = {"a.c"} /\ Init
InitPairs == prog \in PairProgs /\ diff = {"a.c"} /\ Init
InitManager == prog \in ManagerProgs /\ diff = {"a.c"} /\ Init
InitTwice == prog \in ConcProgs /\ Init
InitEnum == prog \in EnumProgs /\ diff = {"a.c"} /\ Init

\* vuln_fix_testCompile.py on one pair.
SpecVft == InitVft /\ [][NextVft]_vars
\* vfec_init.py, Phase 1, on one pair.
SpecInit == InitInit /\ [][NextInit]_vars
\* gpac_pipeline.py (and tcpdump_pipeline.py), Phase 1, on one pair.
SpecGpac == InitGpac /\ [][NextGpac]_vars
\* The libraw, openjpeg and tensorflow pipelines on one pair.
SpecPipe == InitPipe /\ [][NextPipe]_vars
\* vfec_init.py Phase 2 on one pair whose Phase 1 is complete, and
\* profiler.py on the Phase-1 CSV of one pair.
SpecEnergy == InitEnergy /\ [][NextEnergy]_vars
\* One call of a measure function on one perf run.
SpecMeasure == InitMeasure /\ [][NextMeasure]_vars
\* One .gcda file resolved by one coverage collector.
SpecNames == InitNames /\ [][NextNames]_vars
\* Repeated test enumeration on one checked-out tree.
SpecPairs == InitPairs /\ [][NextPairs]_vars
SpecManager == InitManager /\ [][NextManager]_vars
SpecTwice == InitTwice /\ [][NextTwice]_vars
SpecEnum == InitEnum /\ [][NextEnum]_vars

\* ------------------------------------------------------------ the properties
\* The rows of a sequence of CSV lines that are about test t and file f.
RowsOf(lines, t, f) ==
    {k \in DOMAIN lines : lines[k][6] = f /\ (lines[k][3] = t \/ lines[k][5] = t)}
CsvLines == IF csv.exists THEN csv.data ELSE <<>>
\* What test t covers in the build of a commit, as far as a run has shown
\* it; nothing for a test the commit's suite does not have.
Covered(commit, t) ==
    IF <<commit, t>> \in SuitePairs /\ cov[<<commit, t>>] # Unknown
    THEN cov[<<commit, t>>] ELSE {}
VulnCovered(t) == Covered(VULN, t)
FixCovered(t) == Covered(FIX, t)
\* The fix loop of the current invocation has run to its end.
FixPhaseDone == "f_suite" \in work
\* The checkpoint file marks the vuln commit complete.
MarksComplete(file) ==
    /\ file.exists
    /\ Parse(file.data).ok
    /\ \/ Parse(file.data).doc.status = "COMPLETE"
       \/ Parse(file.data).doc.vuln_done = "true"
StartedComplete == ~Stopped /\ MarksComplete(startCkpt)
VulnWork == {"v_checkout", "v_build", "v_test"}
\* The fix build is about to run, or has run and the fix loop is going.
FixStarting ==
    pc \in {"rfp_build", "rfp_open", "rfp_test", "p1_fbuild", "p1_fsuite", "p1_ftest",
            "gp_fbuild", "gp_fsuite", "gp_ftest"}
\* The run is in its fix phase, working with the vuln results.
InFixPhase ==
    pc \in {"rfp_clean", "rfp_checkout", "rfp_build", "rfp_open", "rfp_test",
            "p1_fclean", "p1_fcheckout", "p1_fbuild", "p1_fsuite", "p1_ftest",
            "gp_fclean", "gp_fcheckout", "gp_fbuild", "gp_fsuite", "gp_ftest"}

\* C1: when Phase 1 of a pair has run to completion without any failure, for
\* every test t that ran in either suite and every changed file f, the CSV
\* has a row for (t, f) exactly when t covered f in the vuln build or in the
\* fix build; tests of the vuln results that the fix suite lacks included.
C1_RowIffCovered ==
    (pc = "exit" /\ FixPhaseDone /\ faults = 0) =>
        \A t \in Tests : \A f \in diff :
            (RowsOf(CsvLines, t, f) # {}) <=> (f \in VulnCovered(t) \cup FixCovered(t))

\* C2: in one uninterrupted fix phase, each test t of the fix suite and each
\* changed file f that t covered in at least one build get exactly one row,
\* with v_testname = t iff t covered f in the vuln build and f_testname = t
\* iff t covered f in the fix build (the other name is the empty string).
C2_ExactlyOneRow ==
    FixPhaseDone =>
        \A t \in Range(suite) : \A f \in target_files :
            LET v == f \in VulnCovered(t)
                x == f \in FixCovered(t)
            IN (v \/ x) =>
                  /\ Cardinality(RowsOf(emitted, t, f)) = 1
                  /\ \A k \in RowsOf(emitted, t, f) :
                        emitted[k] = Row(IF v THEN t ELSE "", IF x THEN t ELSE "", f)

\* C3: a run that found the vuln checkpoint COMPLETE on disk when it started
\* does no checkout, no build and no test execution for the vuln commit, and
\* the vuln results its fix phase works with are the results of that file.
C3_CompleteIsReused ==
    StartedComplete =>
        /\ work \cap VulnWork = {}
        /\ ranV = {}
        /\ InFixPhase => results = Parse(startCkpt.data).doc.results

C3_Witness ==
    /\ StartedComplete
    /\ pc \in {"rfp_test", "p1_ftest", "gp_ftest"}
    /\ idx > Len(suite)
    /\ "f_test" \in work
    /\ results # EmptyMap

\* C4: after a kill during the vuln test loop, the resumed run executes no
\* vuln-suite test that had finished running before the kill.
C4_NoTestRunsAgain ==
    (faults = 0) => (ranV \cap doneV = {})

\* C5: once the fix build and the full fix suite have completed in some
\* invocation, a later invocation on the same pair neither builds the fix
\* commit nor runs a test of its suite.
C5_FixWorkDoneOnce ==
    (fixDone /\ faults = 0) => (work \cap {"f_build", "f_test"} = {})

C7_NeverPartiallyWritten ==
    (Stopped /\ ckpt.exists) => Parse(ckpt.data).ok

\* C8: loading a checkpoint never raises: a run that found a malformed or
\* truncated checkpoint file does not end with an exception.
C8_LoadNeverRaises ==
    (startCkpt.exists /\ ~Parse(startCkpt.data).ok /\ saveFailed = {}) => pc # "crashed"

\* C9: saving a checkpoint never raises: after a failed JSON write the run
\* goes on instead of terminating with an exception.
C9_SaveNeverRaises ==
    (saveFailed # {}) => pc # "crashed"

\* C10: after a git reset, clean or checkout that exited non-zero, the run
\* does no build, no test run and no checkpoint update for the pair.
C10_GitFailureStopsPair ==
    afterFail \cap {"v_build", "f_build", "v_test", "f_test", "save"} = {}


\* C11: when the coverage build of a commit exits non-zero, the processing of
\* that commit is aborted: no test of that commit is run by this invocation,
\* and the checkpoint is not marked done / COMPLETE for it.
C11_BuildFailureAbortsCommit ==
    /\ "v_build" \in buildFailed =>
          /\ "v_test" \notin work
          /\ ranV = {}
          /\ ~MarksComplete(ckpt)
    /\ "f_build" \in buildFailed => "f_test" \notin work


\* C12: in every pipeline, when a test command returns a non-zero exit
\* status, the coverage of that test is still collected and compared with the
\* changed files, and the pair is not abandoned because of test failures.
C12_FailedTestStillCollected ==
    /\ \A r \in ranTests : ~r.exit_ok => r.collected
    /\ abandoned = ""

\* C13: for every pair, all coverage work for the vuln commit is finished
\* before any coverage work for the fix commit begins, and energy profiling
\* begins only after the coverage phases of both commits have finished.
C13_VulnThenFixThenEnergy ==
    \A i \in DOMAIN phases :
       /\ phases[i] = <<"cov", FIX>> =>
             \E j \in 1..(i - 1) : phases[j] = <<"cov_done", VULN>>
       /\ phases[i][1] = "energy" =>
             \A c \in Commits : \E j \in 1..(i - 1) : phases[j] = <<"cov_done", c>>


\* C19: a test is energy-profiled for a commit only if its coverage in that
\* commit's coverage build intersects the files changed by the fix commit.
C19_MeasuredOnlyIfCoversChange ==
    \A m \in measured : Covered(m.commit, m.test) \cap diff # {}

\* C20: whenever an energy measurement is executed, the build configuration
\* in effect for the working tree holds no coverage-instrumentation setting
\* left over from the preceding coverage-mode build.
C20_NoCoverageSettingWhenMeasuring ==
    \A m \in measured : "coverage" \notin m.config


\* A measurement of this step returned None.
MeasurementFailedNow == \E k \in failed' : k \notin failed
\* The todo loop of commit c has run to its end in this invocation.
EnergyLoopDone(c) == EnergyOp("done", c) \in work

\* C14: when the energy measurement of one (commit, test) returns None, the
\* energy cache and its file are left unchanged for that key and every other
\* key and the loop goes on with the remaining tests; the failed key is
\* stored nowhere, and an invocation that runs the commit's loop to its end
\* has measured every relevant test its loaded cache did not hold, so a test
\* that failed before is measured again.
C14_FailedMeasurementChangesNothing ==
    /\ [][MeasurementFailedNow =>
            /\ energy_cache' = energy_cache
            /\ energy_file' = energy_file
            /\ todos' = todos
            /\ idx' = idx + 1
            /\ pc' = "e_measure"]_vars
    /\ [](\A k \in failed :
            /\ k \notin DOMAIN energy_cache
            /\ k \notin DOMAIN energy_file.data)
    /\ [](\A c \in Commits : EnergyLoopDone(c) =>
            \A t \in RelevantTests(rows_to_process, c) :
               <<c, t>> \in DOMAIN loadedCache \/ <<c, t>> \in attempts)
\* A test whose measurement failed in an earlier invocation has been
\* measured again, this time with a value, while another value was cached.
C14_Witness ==
    \E k \in failedBefore :
       /\ k \in attempts
       /\ k \in DOMAIN energy_cache
       /\ energy_file.whole
       /\ k \in DOMAIN energy_file.data

\* C16: a (commit, test) that is in the energy cache the invocation loaded
\* is not measured again, and a commit all of whose relevant tests are in
\* that cache is neither checked out nor built for energy.
C16_CachedIsNotMeasuredAgain ==
    /\ \A k \in attempts : k \notin DOMAIN loadedCache
    /\ \A c \in Commits :
          (\A t \in RelevantTests(rows_to_process, c) : <<c, t>> \in DOMAIN loadedCache)
             => /\ EnergyOp("checkout", c) \notin work
                /\ EnergyOp("build", c) \notin work
                /\ EnergyOp("test", c) \notin work
\* The run has worked through both commits with the vuln commit's tests all
\* cached and a test of the fix commit measured.
C16_Witness ==
    /\ pc = "e_rows"
    /\ RelevantTests(rows_to_process, VULN) # {}
    /\ \A t \in RelevantTests(rows_to_process, VULN) : <<VULN, t>> \in DOMAIN loadedCache
    /\ \E t \in RelevantTests(rows_to_process, FIX) : <<FIX, t>> \in attempts

\* C18: the output CSV files are append-only: the content of the energy CSV
\* before a step is always a prefix of its content after the step.
C18_CsvAppendOnly ==
    [][LET before == IF out_csv.exists THEN out_csv.data ELSE <<>>
           after == IF out_csv'.exists THEN out_csv'.data ELSE <<>>
       IN  /\ Len(before) <= Len(after)
           /\ \A k \in DOMAIN before : after[k] = before[k]]_vars


\* The perf output has no line that gives the event a parseable value.
NoValue(lines, sub) ==
    ~\E i \in DOMAIN lines :
        lines[i].parts >= 3 /\ IsFloat(lines[i].val) /\ Has(lines[i].event, sub)
\* perf has been run by one of the three measure functions and the function
\* has returned.
PerfParsed ==
    /\ prog \in {"profiler_measure", "openssl_measure", "vfec_output_measure"}
    /\ iterations > 0
    /\ pc \in {"m_return", "exit"}
\* The measure function has computed its loop count.
LoopCountComputed ==
    /\ prog \in MeasureProgs
    /\ pc \in {"m_perf", "m_return", "exit"}
    /\ perf_in.pre_ok \/ prog \notin {"profiler_measure", "openssl_measure"}

\* C15: in every energy profiler, when the perf output has no parseable value
\* for the energy-pkg event the measure function returns None and nothing is
\* stored in the energy cache; when it has one (and perf exited with 0), a
\* missing or "<not supported>" value of another event only makes that
\* metric 0.
C15_UnparseablePkgIsNone ==
    PerfParsed =>
       /\ NoValue(perf_in.lines, "energy-pkg") => ~metrics.ok /\ stored = {}
       /\ ~NoValue(perf_in.lines, "energy-pkg") /\ perf_in.returncode = 0 =>
             /\ metrics.ok
             /\ NoValue(perf_in.lines, "energy-cores") => metrics.energy_core[1] = 0
             /\ NoValue(perf_in.lines, "cycles") => metrics.cycles[1] = 0

\* C17: in every profiler the loop count is ceil(target_duration / duration)
\* of the measured single-run duration, and at least 1 for every duration,
\* 0 included.
C17_LoopCountIsCeil ==
    LoopCountComputed =>
       /\ iterations >= 1
       /\ perf_in.duration > 0 =>
             iterations = Ceil(TargetDuration(prog), perf_in.duration)


\* C21: for every .gcda artifact <prefix>_la-<name>.gcda, and for curl's
\* prefixes curl-, libcurl_la- and libcurltool_la-, every coverage collector
\* resolves the source file name to <name>.c.
C21_GcdaResolvesToSource ==
    (prog \in NameProgs /\ pc = "exit" /\ gcda.prefix # <<>>) =>
        source_name.file = gcda.name \o <<".c">>


\* C22: test enumeration is deterministic per commit: two enumerations of
\* the same checked-out tree return the same tests in the same order, for
\* every discovery strategy.
C22_EnumerationIsDeterministic ==
    \A i, j \in DOMAIN enumerations : enumerations[i] = enumerations[j]


\* C23: across all the runs of a pipeline on one input (killed and restarted
\* runs, and runs after a completed run, included) the Phase-1 CSV never
\* has two rows for the same (vuln commit, fix commit, test, source file).
C23_AtMostOneRowPerCombination ==
    \A t \in Tests : \A f \in Files : Cardinality(RowsOf(CsvLines, t, f)) <= 1


\* What Phase 1 of a pair emits when it works from its own inputs alone: the
\* vuln coverage within the pair's changed files, crossed with the fix run.
OwnRows(pair) ==
    LET relevant == covers[pair.vuln] \cap changed[pair.fix]
        own == IF relevant # {} THEN Put(EmptyMap, "t1", relevant) ELSE EmptyMap
    IN PairRows(pair, cross_reference("t1", covers[pair.fix], own,
                                      SetToSeq(changed[pair.fix])))
RECURSIVE RowsOfPair(_, _)
RowsOfPair(lines, pair) ==
    IF lines = <<>> THEN <<>>
    ELSE (IF Head(lines)[2] = pair.vuln /\ Head(lines)[4] = pair.fix
          THEN <<Head(lines)>> ELSE <<>>) \o RowsOfPair(Tail(lines), pair)
SamePrefixOtherFix ==
    /\ Len(pairs) = 2
    /\ First8(pairs[1].vuln) = First8(pairs[2].vuln)
    /\ pairs[1].fix # pairs[2].fix

\* C24: for two pairs whose vuln commits share their first 8 characters and
\* whose fix commits differ, once main has worked through both, the master
\* CSV holds for each pair the rows Phase 1 computes from that pair's own
\* vuln coverage and changed files: nothing of the first pair's checkpoint
\* is applied to the second.
C24_CheckpointAppliedToOwnPairOnly ==
    (prog \in PairProgs /\ SamePrefixOtherFix /\ pair_i > Len(pairs)) =>
        \A k \in 1..Len(pairs) : RowsOfPair(CsvLines, pairs[k]) = OwnRows(pairs[k])


\* The results of a vuln phase that runs the whole vuln suite in one go: every
\* test that covers a changed file, with the changed files it covers.
UninterruptedResults ==
    LET hits == {t \in Range(get_tests(VULN)) : VulnCovered(t) \cap diff # {}}
    IN [t \in hits |-> VulnCovered(t) \cap diff]
CompleteOnDisk ==
    ckpt.exists /\ Parse(ckpt.data).ok /\ Parse(ckpt.data).doc.status = "COMPLETE"
\* The current invocation resumed a vuln phase that was killed after a test
\* had been recorded: it started from an IN_PROGRESS checkpoint.
ResumedInProgress ==
    /\ doneV # {}
    /\ startCkpt.exists
    /\ Parse(startCkpt.data).ok
    /\ Parse(startCkpt.data).doc.status = "IN_PROGRESS"

\* C25: with deterministic coverage, whenever the vuln checkpoint says
\* COMPLETE, and whenever a run is in its fix phase, the results are those of
\* an uninterrupted vuln phase; so a vuln phase killed after any number of
\* tests and resumed from its IN_PROGRESS checkpoint ends with the same
\* results map and the same COMPLETE checkpoint content.
C25_ResumedVulnPhaseEqualsUninterrupted ==
    /\ CompleteOnDisk => Parse(ckpt.data).doc = StatusDoc("COMPLETE", UninterruptedResults)
    /\ InFixPhase => results = UninterruptedResults
\* A resumed run that skipped a recorded test, ran the rest of the suite and
\* wrote the COMPLETE checkpoint with a result of each run in it.
C25_Witness ==
    /\ ResumedInProgress
    /\ CompleteOnDisk
    /\ InFixPhase
    /\ ranV # {}
    /\ DOMAIN results \cap ranV # {}
    /\ DOMAIN results \ ranV # {}


\* C26: in vfec_init.run_phase_1 the checkpoint that says COMPLETE_P1 still
\* holds the 'vuln_done' flag and the vuln coverage 'results' that the vuln
\* phase saved: marking completion discards nothing.
C26_CompleteP1KeepsResults ==
    (prog = "init" /\ ckpt.exists /\ Parse(ckpt.data).ok
       /\ Parse(ckpt.data).doc.status = "COMPLETE_P1") =>
        /\ Parse(ckpt.data).doc.vuln_done = "true"
        /\ Parse(ckpt.data).doc.has_results
        /\ Parse(ckpt.data).doc.results = results


\* A well-formed Phase-1 row, and a well-formed results map.
RowIsSound(row) ==
    /\ row[6] \in diff
    /\ row[3] # "" \/ row[5] # ""
    /\ (row[3] # "" /\ row[5] # "") => row[3] = row[5]
ResultsAreSound(r) == \A t \in DOMAIN r : r[t] # {} /\ r[t] \subseteq diff
DataRows(lines) == {k \in DOMAIN lines : lines[k] # Header}

\* C27: every Phase-1 row ever emitted (in the CSV, and among the rows the run
\* has written or buffered) names a changed file, has at least one of
\* v_testname and f_testname, and the same test when it has both; and every
\* entry of the vuln results, in memory, in a save and in a checkpoint that
\* parses, maps a test to a non-empty set of changed files.
C27_RowsAndResultsAreSound ==
    /\ \A k \in DataRows(CsvLines) : RowIsSound(CsvLines[k])
    /\ \A k \in DOMAIN emitted : RowIsSound(emitted[k])
    /\ \A k \in DOMAIN buffer : RowIsSound(buffer[k])
    /\ ResultsAreSound(results)
    /\ ResultsAreSound(saveDoc.results)
    /\ (ckpt.exists /\ Parse(ckpt.data).ok) => ResultsAreSound(Parse(ckpt.data).doc.results)
\* The CSV has a row with both test names and a row with one of them, and the
\* checkpoint on disk has a results entry.
C27_Witness ==
    /\ \E k \in DataRows(CsvLines) : CsvLines[k][3] # "" /\ CsvLines[k][5] # ""
    /\ \E k \in DataRows(CsvLines) : CsvLines[k][3] = "" \/ CsvLines[k][5] = ""
    /\ ckpt.exists /\ Parse(ckpt.data).ok /\ DOMAIN Parse(ckpt.data).doc.results # {}


\* What a CSV file holds once every added row has been written: the file as
\* it was found, or the header for a new file, and then the added rows.
Written(start, header, added) ==
    IF added = <<>> THEN start
    ELSE File((IF start.exists THEN start.data ELSE <<header>>) \o added)
HeaderOnceAndFirst(file, header) ==
    file.exists => {k \in DOMAIN file.data : file.data[k] = header} = {1}
\* The buffer holds the newest of the added rows, and the older ones are in
\* the file.
NothingDropped(file, buf, added) ==
    /\ Len(buf) <= Len(added)
    /\ buf = SubSeq(added, Len(added) - Len(buf) + 1, Len(added))
    /\ \A k \in 1..(Len(added) - Len(buf)) : added[k] \in Range(file.data)

\* C28: after add_p1 / add_p2 calls and a flush_all, with every write having
\* succeeded, each CSV file to which a row was added holds the header once,
\* as its first line (written only for a new file), then the added rows in
\* the order they were added, each once, and both buffers are empty; and
\* whatever the writes did, a failed write keeps its buffer, so that every
\* added row is in its buffer or in its file.
C28_FlushWritesAllRowsOnce ==
    prog \in ManagerProgs =>
        /\ (flushed_all /\ faults = 0) =>
              /\ buffer = <<>> /\ buffer_p2 = <<>>
              /\ csv = Written(start_files.p1, Header, added_p1)
              /\ out_csv = Written(start_files.p2, Header2, added_p2)
              /\ HeaderOnceAndFirst(csv, Header) /\ HeaderOnceAndFirst(out_csv, Header2)
        /\ NothingDropped(csv, buffer, added_p1)
        /\ NothingDropped(out_csv, buffer_p2, added_p2)
\* Rows were added to both buffers, one file existed and one did not, a
\* flush at the interval and the flush_all both wrote, and all succeeded.
C28_Witness ==
    /\ prog \in ManagerProgs /\ flushed_all /\ faults = 0
    /\ Len(added_p1) >= 2 /\ added_p2 # <<>>
    /\ start_files.p1.exists /\ ~start_files.p2.exists
    /\ interval = 2
\* A write failed and its rows are still buffered.
C28_WitnessFailedWrite ==
    /\ prog \in ManagerProgs /\ faults > 0 /\ flushed_all /\ buffer # <<>>


\* The Phase-2 rows of one invocation for the pair, worked out from the
\* Phase-1 CSV and the cache: a row per Phase-1 row of the pair, in order,
\* the energy of a side being the cached value of its (commit, test), 0 for
\* an empty test name or a test without a cached value.
EnergyField(c, t) ==
    IF t # "" /\ <<c, t>> \in DOMAIN energy_cache THEN Fmt4(energy_cache[<<c, t>>])
    ELSE Fmt4(0)
RECURSIVE ExpectedP2(_)
ExpectedP2(lines) ==
    IF lines = <<>> THEN <<>>
    ELSE LET r == Head(lines)
         IN (IF r # Header /\ r[2] = VULN /\ r[4] = FIX
             THEN <<<<r[1], r[2], r[3], EnergyField(VULN, r[3]),
                      r[4], r[5], r[6], EnergyField(FIX, r[5])>>>>
             ELSE <<>>) \o ExpectedP2(Tail(lines))
AppendedP2 ==
    IF ExpectedP2(CsvLines) = <<>> THEN out_csv
    ELSE File((IF out_csv.exists THEN out_csv.data ELSE <<Header2>>) \o ExpectedP2(CsvLines))
Phase2RowsStep == prog = "phase2" /\ pc = "e_rows" /\ pc' = "exit"

LostUpdate ==
    /\ prog \in ConcProgs
    /\ last_writer # 0
    /\ ckpt.exists /\ Parse(ckpt.data).ok
    /\ \E q \in Invocations \ {last_writer} :
          saved_by[q] \ DOMAIN Parse(ckpt.data).doc.results # {}

\* C30: no lock guards the checkpoint: with two concurrent invocations, the
\* file is empty (a save is under way) or holds exactly the document of the
\* invocation that wrote last, nothing of what the other had saved being
\* kept; so a state is reachable (C30_Witness) in which a result saved by one
\* invocation has been overwritten and lost by a save of the other.
C30_LastWriterWins ==
    (prog \in ConcProgs /\ ckpt.exists) =>
        /\ last_writer \in Invocations
        /\ ckpt.data \in {<<>>, Serialize(procs[last_writer].dumped)}
C30_Witness == LostUpdate

=============================================================================
